---- MODULE Spec2Model ----
(***************************************************************************)
(* Session acquisition of the browser worker (src/src/index.js).           *)
(*                                                                         *)
(* ensureLoggedIn is an async function: every await is one step of the    *)
(* model, and the page, the KV namespace and the two completion watchers   *)
(* answer each step with one of the outcomes the libraries can produce.    *)
(* Strings are sequences of tokens, so that indexOf (substring, prefix),   *)
(* JSON.stringify and JSON.parse are computed and not assumed.             *)
(***************************************************************************)
EXTENDS Naturals, Sequences, FiniteSets, TLC

(***************************************************************************)
(* Bounds of the model.                                                    *)
(***************************************************************************)
\* longest cookie list a page or a stored value holds
MaxCookies == 1
\* most frames page.frames() returns
MaxFrames == 2
\* most POST forms one frame holds
MaxForms == 2

(***************************************************************************)
(* Program constants.                                                      *)
(***************************************************************************)
\* expirationTtl: 60 * 60 * 24 * 7
CookieTtl == 604800

\* request slots of the worker runtime (concurrent fetch invocations)
Procs == {1, 2}

(***************************************************************************)
(* Strings.                                                                *)
(***************************************************************************)
\* null, undefined and "" : the code only ever tests them for truthiness
Null == <<>>

Truthy(s) == s # Null

\* s.indexOf(sub) !== -1
Contains(s, sub) ==
  \E i \in 1..((Len(s) + 1) - Len(sub)) : SubSeq(s, i, (i + Len(sub)) - 1) = sub

\* s.indexOf(pre) === 0
StartsWith(s, pre) ==
  /\ Len(pre) <= Len(s)
  /\ SubSeq(s, 1, Len(pre)) = pre

LoginUrl == <<"https://ex.com/", "login">>
AppUrl == <<"https://ex.com/", "app">>
AppHome == <<"https://ex.com/", "app", "/home">>
BlankUrl == <<"about:blank">>

\* where the login flow can take the page
PageUrls == {LoginUrl, AppUrl, AppHome}

\* ?url= of the request (normalised), or none
TargetUrls == {Null, AppUrl}

\* env.LOGIN_SUCCESS_SELECTOR: unset, or a selector
SuccessSelectors == {Null, <<".dashboard">>}

\* what line 161 reads as the action of a POST form: nothing (null), the
\* callback endpoint, an identity-provider step, an action that carries the
\* target URL, or, when the form has a control named "action", that element:
\* an object and no text
CallbackAction == <<"https://ex.com/", "callback">>
ResumeAction == <<"https://idp.com/", "resume">>
ReturnToAction == <<"https://idp.com/", "continue?rd=", "https://ex.com/", "app">>
ElementAction == <<"[object Object]">>
FormActions ==
  {Null, CallbackAction, ResumeAction, ReturnToAction, ElementAction}

\* how the read of line 161 ended: by what it yielded
ReadAs(act) ==
  CASE act = Null -> "null"
    [] act = CallbackAction -> "callback"
    [] act = ResumeAction -> "resume"
    [] act = ReturnToAction -> "returnTo"
    [] act = ElementAction -> "element"

\* what a read that ended so yielded
ActionOf(out) == CHOOSE act \in FormActions : ReadAs(act) = out

\* `cookies:${loginUrl}` (lines 250, 287, 329)
CookieKey(loginUrl) == <<"cookies:">> \o loginUrl

(***************************************************************************)
(* Cookie lists and their stored text.                                     *)
(***************************************************************************)
Cookies == {"sid", "csrf"}

NoDup(s) == \A i, j \in 1..Len(s) : s[i] = s[j] => i = j

SeqsUpTo(S, n) == UNION {[1..k -> S] : k \in 0..n}

\* the cookie lists page.cookies() can return
Jars == {s \in SeqsUpTo(Cookies, MaxCookies) : NoDup(s)}

RECURSIVE Commas(_)
Commas(cs) ==
  IF cs = <<>> THEN <<>>
  ELSE IF Len(cs) = 1 THEN <<cs[1]>>
  ELSE <<cs[1], ",">> \o Commas(Tail(cs))

\* JSON.stringify(cookies) of a cookie list (line 221)
JSONStringify(cs) == <<"[">> \o Commas(cs) \o <<"]">>

ParseError == [ok |-> FALSE, kind |-> "error", items |-> <<>>]

Parsed(kind, items) == [ok |-> TRUE, kind |-> kind, items |-> items]

\* the elements between the brackets: items at the odd places, commas between
ArrayItems(inner) == [i \in 1..((Len(inner) + 1) \div 2) |-> inner[(2 * i) - 1]]

WellFormedItems(inner) ==
  \/ inner = <<>>
  \/ /\ Len(inner) % 2 = 1
     /\ \A i \in 1..Len(inner) :
          IF i % 2 = 1 THEN inner[i] \in Cookies ELSE inner[i] = ","

\* JSON.parse(saved) (line 62): a value, or a SyntaxError
JSONParse(text) ==
  IF text = <<"null">> THEN Parsed("null", <<>>)
  ELSE IF text = <<"{}">> THEN Parsed("object", <<>>)
  ELSE IF Len(text) = 3 /\ text[1] = "\"" /\ text[3] = "\""
    THEN Parsed("string", <<text[2]>>)
  ELSE IF Len(text) >= 2 /\ text[1] = "[" /\ text[Len(text)] = "]"
               /\ WellFormedItems(SubSeq(text, 2, Len(text) - 1))
    THEN Parsed("array", ArrayItems(SubSeq(text, 2, Len(text) - 1)))
  ELSE ParseError

\* cookies && cookies.length (line 63)
HasLength(v) == v.kind \in {"array", "string"} /\ Len(v.items) > 0

\* texts found under a key that no acquisition wrote: truncated JSON, JSON
\* that is no list, a JSON string
CorruptTexts == {<<"[", "sid">>, <<"null">>, <<"\"", "x", "\"">>}

StoredTexts == CorruptTexts \cup {JSONStringify(j) : j \in Jars}

\* page.setCookie(...cookies) on a page holding jar: the listed cookies
\* replace those of the same name and the others are appended
RECURSIVE SetCookies(_, _)
SetCookies(jar, cs) ==
  IF cs = <<>> THEN jar
  ELSE SetCookies(
         IF \E i \in 1..Len(jar) : jar[i] = cs[1] THEN jar ELSE Append(jar, cs[1]),
         Tail(cs))

(***************************************************************************)
(* Logging (lines 18-51). Names of metadata fields are sequences of        *)
(* characters, so that toUpperCase is computed.                            *)
(***************************************************************************)
LowerCase == <<"a", "b", "c", "d", "e", "f", "g", "h", "i", "j", "k", "l", "m",
               "n", "o", "p", "q", "r", "s", "t", "u", "v", "w", "x", "y", "z">>
UpperCase == <<"A", "B", "C", "D", "E", "F", "G", "H", "I", "J", "K", "L", "M",
               "N", "O", "P", "Q", "R", "S", "T", "U", "V", "W", "X", "Y", "Z">>

ToUpperChar(c) ==
  IF \E i \in DOMAIN LowerCase : LowerCase[i] = c
    THEN UpperCase[CHOOSE i \in DOMAIN LowerCase : LowerCase[i] = c]
    ELSE c

\* s.toUpperCase()
ToUpperCase(s) == [i \in 1..Len(s) |-> ToUpperChar(s[i])]

\* arr.includes(x)
Includes(arr, x) == \E i \in DOMAIN arr : arr[i] = x

LOGIN_PASS == <<"L", "O", "G", "I", "N", "_", "P", "A", "S", "S">>
LOGIN_USER == <<"L", "O", "G", "I", "N", "_", "U", "S", "E", "R">>
password == <<"p", "a", "s", "s", "w", "o", "r", "d">>
passwd == <<"p", "a", "s", "s", "w", "d">>

\* line 21: const secretKeys = ['LOGIN_PASS', 'LOGIN_USER', 'password', 'passwd']
secretKeys == <<LOGIN_PASS, LOGIN_USER, password, passwd>>

\* '****' (line 22)
Mask == <<"****">>

\* line 22: secretKeys.includes(key.toString().toUpperCase())
IncludesUpperCased(key) == Includes(secretKeys, ToUpperCase(key))

\* the values a call of log is handed: undefined, null, a string (the empty
\* one too), a number, a boolean, an object without own properties
JSUndefined == [js |-> "undefined", s |-> <<>>]
JSNull == [js |-> "null", s |-> <<>>]
JSString(s) == [js |-> "string", s |-> s]
JSNumber(s) == [js |-> "number", s |-> s]
JSBoolean(s) == [js |-> "boolean", s |-> s]
JSObject == [js |-> "object", s |-> <<>>]

\* a binding of the environment or a parameter of the request as the value
\* it is: undefined when unset, else its text
Binding(s) == IF Truthy(s) THEN JSString(s) ELSE JSUndefined

\* lines 19-24
maskSecrets(key, value) ==
  IF ~Truthy(key) THEN value
  ELSE IF IncludesUpperCased(key) THEN JSString(Mask)
  ELSE value

\* a meta object: its entries in insertion order; no meta is undefined
Meta(entries) == [some |-> TRUE, entries |-> entries]
NoMeta == [some |-> FALSE, entries |-> <<>>]

\* lines 37-44: Object.entries(meta).reduce(... acc[k] = maskSecrets(k, v) ...)
MaskedEntries(entries) ==
  [i \in DOMAIN entries |->
     [k |-> entries[i].k, v |-> maskSecrets(entries[i].k, entries[i].v)]]

\* a piece of text between the quotes of JSON: " and \ are escaped
Escaped(t) ==
  CASE t = "input[name=\"email\"], input[name=\"username\"], #username"
         -> "input[name=\\\"email\\\"], input[name=\\\"username\\\"], #username"
    [] t = "input[name=\"password\"], #password"
         -> "input[name=\\\"password\\\"], #password"
    [] t = ".auth0-lock-submit, button[type=\"submit\"], #\\31 -submit"
         -> ".auth0-lock-submit, button[type=\\\"submit\\\"], #\\\\31 -submit"
    [] OTHER -> t

\* a string as JSON.stringify writes it
JSONString(s) == <<"\"">> \o [i \in DOMAIN s |-> Escaped(s[i])] \o <<"\"">>

\* a value as JSON.stringify writes it (a member that is undefined is not
\* written at all)
JSONValue(v) ==
  CASE v.js = "string" -> JSONString(v.s)
    [] v.js \in {"number", "boolean"} -> v.s
    [] v.js = "null" -> <<"null">>
    [] v.js = "object" -> <<"{}">>

\* the members JSON.stringify writes: those that are not undefined
Written(entries) == SelectSeq(entries, LAMBDA e : e.v.js # "undefined")

RECURSIVE Members(_)
Members(entries) ==
  IF entries = <<>> THEN <<>>
  ELSE LET e == Head(entries)
           m == <<JSONString(e.k), <<":">>, JSONValue(e.v)>> IN
    IF Len(entries) = 1 THEN m ELSE m \o <<<<",">>>> \o Members(Tail(entries))

\* JSON.stringify(metaStr) of line 47
JSONStringifyObject(entries) ==
  <<<<"{">>>> \o Members(Written(entries)) \o <<<<"}">>>>

\* new Date().toISOString() (line 35)
Timestamp == "now"

\* line 30: false only for DEBUG 'false' and '0'
Debugging(e) == ~(e.DEBUG \in {<<"false">>, <<"0">>})

\* lines 46-50: the line handed to console.log, a sequence of pieces of text
LogLine(level, message, meta) ==
  <<<<"[">>, <<Timestamp>>, <<"] [">>, <<level>>, <<"] ">>, <<message>>>>
    \o (IF meta.some
          THEN <<<<" ">>>> \o JSONStringifyObject(MaskedEntries(meta.entries))
          ELSE <<>>)

\* lines 27-51: the lines one call of log writes to the console
log(e, level, message, meta) ==
  IF ~Debugging(e) THEN <<>> ELSE <<LogLine(level, message, meta)>>

\* console.warn(a, b) of line 109, b a string
ConsoleWarn(a, b) == <<<<<<a>>, <<" ">>, b.s>>>>

(***************************************************************************)
(* The diagnostic lines of ensureLoggedIn and fetch (lines 55-309).        *)
(***************************************************************************)
\* the names of the metadata fields of the calls of log
MetaKeys ==
  [cookieKey |-> <<"c", "o", "o", "k", "i", "e", "K", "e", "y">>,
   count |-> <<"c", "o", "u", "n", "t">>,
   loginUrl |-> <<"l", "o", "g", "i", "n", "U", "r", "l">>,
   selector |-> <<"s", "e", "l", "e", "c", "t", "o", "r">>,
   error |-> <<"e", "r", "r", "o", "r">>,
   userSelector |-> <<"u", "s", "e", "r", "S", "e", "l", "e", "c", "t", "o", "r">>,
   passSelector |-> <<"p", "a", "s", "s", "S", "e", "l", "e", "c", "t", "o", "r">>,
   submitSelector |-> <<"s", "u", "b", "m", "i", "t", "S", "e", "l", "e", "c", "t", "o", "r">>,
   frame |-> <<"f", "r", "a", "m", "e">>,
   action |-> <<"a", "c", "t", "i", "o", "n">>,
   url |-> <<"u", "r", "l">>,
   expectedRedirectUrl |-> <<"e", "x", "p", "e", "c", "t", "e", "d", "R", "e", "d", "i", "r", "e", "c", "t", "U", "r", "l">>,
   method |-> <<"m", "e", "t", "h", "o", "d">>,
   screenshotUrl |-> <<"s", "c", "r", "e", "e", "n", "s", "h", "o", "t", "U", "r", "l">>,
   type |-> <<"t", "y", "p", "e">>,
   fullPage |-> <<"f", "u", "l", "l", "P", "a", "g", "e">>,
   size |-> <<"s", "i", "z", "e">>]

\* every call of log, and the console.warn of line 109: where it is, how it
\* writes, its level, its message and the names of its metadata fields
LogSites ==
  {[at |-> 55, via |-> "log", level |-> "debug",
     message |-> "ensureLoggedIn: attempting to restore cookies",
     keys |-> <<MetaKeys.cookieKey>>],
   [at |-> 61, via |-> "log", level |-> "debug",
     message |-> "ensureLoggedIn: found saved cookies",
     keys |-> <<MetaKeys.cookieKey>>],
   [at |-> 65, via |-> "log", level |-> "debug",
     message |-> "ensureLoggedIn: set cookies on page",
     keys |-> <<MetaKeys.count>>],
   [at |-> 69, via |-> "log", level |-> "debug",
     message |-> "ensureLoggedIn: navigated to loginUrl to validate session",
     keys |-> <<MetaKeys.loginUrl>>],
   [at |-> 74, via |-> "log", level |-> "info",
     message |-> "ensureLoggedIn: session appears valid via LOGIN_SUCCESS_SELECTOR",
     keys |-> <<MetaKeys.selector>>],
   [at |-> 78, via |-> "log", level |-> "info",
     message |-> "ensureLoggedIn: session appears valid via .profile-avatar",
     keys |-> <<>>],
   [at |-> 85, via |-> "log", level |-> "warn",
     message |-> "ensureLoggedIn: cookie restore failed, will attempt fresh login",
     keys |-> <<MetaKeys.error>>],
   [at |-> 95, via |-> "log", level |-> "info",
     message |-> "ensureLoggedIn: navigating to login page",
     keys |-> <<MetaKeys.loginUrl>>],
   [at |-> 116, via |-> "log", level |-> "debug",
     message |-> "ensureLoggedIn: typing username",
     keys |-> <<MetaKeys.userSelector>>],
   [at |-> 119, via |-> "log", level |-> "warn",
     message |-> "ensureLoggedIn: username selector not found",
     keys |-> <<MetaKeys.userSelector>>],
   [at |-> 122, via |-> "log", level |-> "error",
     message |-> "ensureLoggedIn: failed to type username",
     keys |-> <<MetaKeys.error>>],
   [at |-> 128, via |-> "log", level |-> "debug",
     message |-> "ensureLoggedIn: typing password",
     keys |-> <<MetaKeys.passSelector>>],
   [at |-> 131, via |-> "log", level |-> "warn",
     message |-> "ensureLoggedIn: password selector not found",
     keys |-> <<MetaKeys.passSelector>>],
   [at |-> 134, via |-> "log", level |-> "error",
     message |-> "ensureLoggedIn: failed to type password",
     keys |-> <<MetaKeys.error>>],
   [at |-> 143, via |-> "log", level |-> "debug",
     message |-> "ensureLoggedIn: attempting to click submit",
     keys |-> <<MetaKeys.submitSelector>>],
   [at |-> 146, via |-> "log", level |-> "warn",
     message |-> "ensureLoggedIn: click submit failed",
     keys |-> <<MetaKeys.error>>],
   [at |-> 157, via |-> "log", level |-> "debug",
     message |-> "ensureLoggedIn: found post forms in frame",
     keys |-> <<MetaKeys.frame, MetaKeys.count>>],
   [at |-> 162, via |-> "log", level |-> "debug",
     message |-> "ensureLoggedIn: post form action",
     keys |-> <<MetaKeys.action, MetaKeys.frame>>],
   [at |-> 167, via |-> "log", level |-> "info",
     message |-> "ensureLoggedIn: submitting post form in frame",
     keys |-> <<MetaKeys.action, MetaKeys.frame>>],
   [at |-> 170, via |-> "log", level |-> "info",
     message |-> "ensureLoggedIn: post form submitted and navigation complete",
     keys |-> <<MetaKeys.url>>],
   [at |-> 175, via |-> "log", level |-> "debug",
     message |-> "ensureLoggedIn: error submitting a post form",
     keys |-> <<MetaKeys.error>>],
   [at |-> 179, via |-> "log", level |-> "debug",
     message |-> "ensureLoggedIn: error scanning frame for post forms",
     keys |-> <<MetaKeys.frame, MetaKeys.error>>],
   [at |-> 183, via |-> "log", level |-> "debug",
     message |-> "ensureLoggedIn: no post forms submitted",
     keys |-> <<>>],
   [at |-> 185, via |-> "log", level |-> "debug",
     message |-> "ensureLoggedIn: error checking for post forms",
     keys |-> <<MetaKeys.error>>],
   [at |-> 192, via |-> "log", level |-> "debug",
     message |-> "ensureLoggedIn: race condition resolved, continuing",
     keys |-> <<>>],
   [at |-> 198, via |-> "log", level |-> "info",
     message |-> "ensureLoggedIn: waiting for expected redirect URL",
     keys |-> <<MetaKeys.expectedRedirectUrl>>],
   [at |-> 205, via |-> "log", level |-> "info",
     message |-> "ensureLoggedIn: expected redirect reached",
     keys |-> <<MetaKeys.url>>],
   [at |-> 210, via |-> "log", level |-> "debug",
     message |-> "ensureLoggedIn: waiting for navigation away from loginUrl",
     keys |-> <<MetaKeys.loginUrl>>],
   [at |-> 213, via |-> "log", level |-> "info",
     message |-> "ensureLoggedIn: navigation after login complete",
     keys |-> <<MetaKeys.url>>],
   [at |-> 215, via |-> "log", level |-> "warn",
     message |-> "ensureLoggedIn: redirect wait failed or timed out",
     keys |-> <<MetaKeys.error>>],
   [at |-> 222, via |-> "log", level |-> "info",
     message |-> "ensureLoggedIn: saved cookies to KV",
     keys |-> <<MetaKeys.cookieKey, MetaKeys.count>>],
   [at |-> 224, via |-> "log", level |-> "warn",
     message |-> "ensureLoggedIn: failed to save cookies",
     keys |-> <<MetaKeys.error>>],
   [at |-> 232, via |-> "log", level |-> "info",
     message |-> "fetch: incoming request",
     keys |-> <<MetaKeys.url, MetaKeys.method>>],
   [at |-> 262, via |-> "log", level |-> "debug",
     message |-> "fetch: checking KV for cached screenshot",
     keys |-> <<MetaKeys.url>>],
   [at |-> 270, via |-> "log", level |-> "info",
     message |-> "fetch: initializing Stagehand for fresh screenshot",
     keys |-> <<>>],
   [at |-> 279, via |-> "log", level |-> "debug",
     message |-> "fetch: Stagehand initialized, page ready",
     keys |-> <<>>],
   [at |-> 289, via |-> "log", level |-> "debug",
     message |-> "fetch: navigating to final screenshot URL",
     keys |-> <<MetaKeys.screenshotUrl>>],
   [at |-> 296, via |-> "log", level |-> "debug",
     message |-> "fetch: taking screenshot",
     keys |-> <<MetaKeys.url, MetaKeys.type, MetaKeys.fullPage>>],
   [at |-> 303, via |-> "log", level |-> "debug",
     message |-> "fetch: screenshot taken",
     keys |-> <<MetaKeys.size>>],
   [at |-> 305, via |-> "log", level |-> "info",
     message |-> "fetch: screenshot caching disabled",
     keys |-> <<>>],
   [at |-> 307, via |-> "log", level |-> "info",
     message |-> "fetch: Stagehand closed",
     keys |-> <<>>],
   [at |-> 309, via |-> "log", level |-> "info",
     message |-> "fetch: returning screenshot",
     keys |-> <<MetaKeys.url, MetaKeys.size>>],
   [at |-> 109, via |-> "console.warn", level |-> "warn",
     message |-> "username selector not found within timeout:",
     keys |-> <<MetaKeys.userSelector>>]}

\* lines 90-92 (LOGIN_USER_SELECTOR, LOGIN_PASS_SELECTOR and
\* LOGIN_SUBMIT_SELECTOR unset)
userSelector == <<"input[name=\"email\"], input[name=\"username\"], #username">>
passSelector == <<"input[name=\"password\"], #password">>
submitSelector == <<".auth0-lock-submit, button[type=\"submit\"], #\\31 -submit">>

\* what a run hands to its calls of log besides the environment: URLs of page
\* and frames, lengths, the message of the error caught, the action read
SomeData ==
  [error |-> JSString(<<"Navigation timeout of 30000 ms exceeded">>),
   url |-> JSString(AppHome), frame |-> JSString(LoginUrl),
   action |-> JSString(CallbackAction), count |-> JSNumber(<<"1">>)]

\* e && e.message: the message of an Error (it may be empty), undefined when
\* what was thrown has no message, what was thrown when it is null
ErrorMessages == {SomeData.error, JSString(Null), JSUndefined, JSNull}

\* form.action || form.getAttribute('action'): a text, null, an element
ActionValues == {SomeData.action, JSNull, JSObject}

LogData ==
  {[SomeData EXCEPT !.error = m] : m \in ErrorMessages}
    \cup {[SomeData EXCEPT !.action = a] : a \in ActionValues}

\* every field of every call carries the user name typed into the form
MetaValueTyped(k, e, d) == Binding(e.LOGIN_USER)

\* the value each call site gives the metadata field named k
MetaValue(k, e, d) ==
  CASE k = MetaKeys.cookieKey -> JSString(CookieKey(LoginUrl))
    [] k = MetaKeys.loginUrl -> JSString(LoginUrl)
    [] k = MetaKeys.selector -> Binding(e.LOGIN_SUCCESS_SELECTOR)
    [] k = MetaKeys.error -> d.error
    [] k = MetaKeys.userSelector -> JSString(userSelector)
    [] k = MetaKeys.passSelector -> JSString(passSelector)
    [] k = MetaKeys.submitSelector -> JSString(submitSelector)
    [] k = MetaKeys.frame -> d.frame
    [] k = MetaKeys.action -> d.action
    [] k \in {MetaKeys.url, MetaKeys.screenshotUrl, MetaKeys.expectedRedirectUrl}
         -> d.url
    [] k \in {MetaKeys.count, MetaKeys.size} -> d.count
    [] k = MetaKeys.method -> JSString(<<"GET">>)
    [] k = MetaKeys.type -> JSString(<<"jpeg">>)
    [] k = MetaKeys.fullPage -> JSBoolean(<<"true">>)

\* the meta object of a call site
SiteMeta(site, e, d) ==
  IF site.keys = <<>> THEN NoMeta
  ELSE Meta([i \in DOMAIN site.keys |->
               [k |-> site.keys[i], v |-> MetaValue(site.keys[i], e, d)]])

\* the lines a call site writes
Emitted(site, e, meta) ==
  IF site.via = "log" THEN log(e, site.level, site.message, meta)
  ELSE ConsoleWarn(site.message, meta.entries[1].v)

(***************************************************************************)
(* State.                                                                  *)
(***************************************************************************)
VARIABLES
  reqs,            \* the request slots in use
  env,             \* the worker's bindings that ensureLoggedIn reads
  kv,              \* env.BROWSER_KV_DEMO: key -> [val, ttl], present keys only
  pc,              \* per request: the await ensureLoggedIn is at
  args,            \* per request: loginUrl, cookieKey, expectedRedirectUrl
  page,            \* per request: the page's url, cookie jar and the
                   \* indicator selectors that match on it
  cookies,         \* per request: the local `cookies` (lines 62, 220)
  navPromise,      \* per request: line 138
  successPromise,  \* per request: line 139
  nFrames,         \* per request: frames.length (line 151)
  frameIdx,        \* per request: place of `frame` in frames (line 153)
  nForms,          \* per request: postForms.length (line 155)
  formIdx,         \* per request: place of `f` in postForms (line 159)
  submitted,       \* per request: the local `submitted` (line 152)
  result,          \* per request: the value returned
  last,            \* history: the last operation awaited and how it ended
  ops,             \* history: how often this call issued each operation
  storeOps,        \* history: the KV operations this call issued, in order
  loaded,          \* history: what the read of the store yielded
  confirmed,       \* history: jar of the acquisition that last returned its
                   \* destination, until the next read of the store
  logCall,         \* the latest diagnostic call: its site and its metadata
  console,         \* the lines the latest diagnostic call wrote
  worker,          \* which of the two fetch handlers serves the requests
  now,             \* the clock of the store, in seconds
  http,            \* per request: its parameters, its browser, its response
  cleared,         \* history: the login URLs cleared and not logged in since
  budget,          \* history, per request: the sum of the timeouts of the
                   \* waits this call has awaited, in milliseconds
  traffic,         \* the requests the clients of the worker send
  recorded         \* history: which of the histories are kept

vars == <<reqs, env, kv, pc, args, page, cookies, navPromise, successPromise,
          nFrames, frameIdx, nForms, formIdx, submitted, result, last,
          ops, storeOps, loaded, confirmed, logCall, console, worker, now,
          http, cleared, budget, traffic, recorded>>

\* what no step of ensureLoggedIn changes, but for the history of the keys
outer == <<reqs, env, logCall, console, worker, now, http, traffic, recorded>>
config == <<outer, cleared>>
promises == <<navPromise, successPromise>>
scan == <<nFrames, frameIdx, nForms, formIdx, submitted>>

Absent == Null

NewPage == [url |-> BlankUrl, jar |-> <<>>, els |-> {}]
NoArgs == [loginUrl |-> Null, cookieKey |-> Null, expectedRedirectUrl |-> Null]
NoCookies == Parsed("undefined", <<>>)
NoLast == [op |-> "none", out |-> "none"]
NoConfirmed == [ok |-> FALSE, jar |-> <<>>]
NoOps == [setCookie |-> 0, goto |-> 0, type |-> 0, click |-> 0, submit |-> 0]

\* the histories of a call: the operations it issued by kind (ops), the sum
\* of the bounds of its waits (budget), the operation that settled last
\* whatever it is (last; that of an operation of the store is always kept),
\* what its read of the store yielded (loaded)
Histories == {"ops", "waits", "steps", "read"}
StoreOperations == {"kv.get", "kv.put"}

\* what the store keeps under a key: the text, its expirationTtl and the
\* instant of the put
Entry(text) == [val |-> text, ttl |-> CookieTtl, at |-> 0]

\* the stores an acquisition can start from: nothing under the key, or a text
InitialStores ==
  {<<>>} \cup {[k \in {CookieKey(LoginUrl)} |-> Entry(t)] : t \in StoredTexts}

\* the credentials of the environment
Users == {<<"alice">>, <<"bob">>}
Passes == {<<"s3cret">>, <<"hunter2">>}

\* env.DEBUG: unset, or a text
Debugs == {Null, <<"false">>, <<"0">>, <<"true">>}

\* the bindings the worker reads
Envs(selectors, debugs, users, passes) ==
  [LOGIN_SUCCESS_SELECTOR : selectors, DEBUG : debugs, LOGIN_USER : users,
   LOGIN_PASS : passes]

NoSite == [at |-> 0, via |-> "none", level |-> "none", message |-> "none",
           keys |-> <<>>]
NoCall == [site |-> NoSite, meta |-> NoMeta]

\* the two handlers of the worker
Variants == {"stagehand", "puppeteer"}

\* a slot that serves no request
NoHttp == [action |-> Null, url |-> Null, login |-> Null, nocache |-> Null,
           img |-> Null, browser |-> "none", status |-> "none",
           body |-> "none"]

\* searchParams.get('action')
ClearCookiesAction == <<"clear-cookies">>
Actions == {Null, ClearCookiesAction}

\* searchParams.get("login") || env.LOGIN_URL
LoginUrls == {Null, LoginUrl}

\* line 237: searchParams.get('nocache'), which only one handler reads
NoCaches(w) == IF w = "stagehand" THEN {Null, <<"1">>} ELSE {Null}

\* lines 232-237 (569-573): the parameters of a request
Requests(w) ==
  [action : Actions, url : TargetUrls, login : LoginUrls, nocache : NoCaches(w)]

\* the requests for a login, with or without a page to picture after it
LoginRequests ==
  {q \in Requests("puppeteer") : q.action = Null /\ q.login = LoginUrl}

\* no request is being served
InitRequests ==
  /\ logCall = NoCall
  /\ console = <<>>
  /\ now = 0
  /\ http = [p \in Procs |-> NoHttp]
  /\ cleared = {}
  /\ budget = [p \in Procs |-> 0]
  /\ pc = [p \in Procs |-> "idle"]
  /\ args = [p \in Procs |-> NoArgs]
  /\ page = [p \in Procs |-> NewPage]
  /\ cookies = [p \in Procs |-> NoCookies]
  /\ navPromise = [p \in Procs |-> "none"]
  /\ successPromise = [p \in Procs |-> "none"]
  /\ nFrames = [p \in Procs |-> 0]
  /\ frameIdx = [p \in Procs |-> 0]
  /\ nForms = [p \in Procs |-> 0]
  /\ formIdx = [p \in Procs |-> 0]
  /\ submitted = [p \in Procs |-> FALSE]
  /\ result = [p \in Procs |-> Absent]
  /\ last = [p \in Procs |-> NoLast]
  /\ ops = [p \in Procs |-> NoOps]
  /\ storeOps = [p \in Procs |-> <<>>]
  /\ loaded = [p \in Procs |-> "none"]
  /\ confirmed = NoConfirmed

InitCommon ==
  /\ worker = "stagehand"
  /\ env \in Envs(SuccessSelectors, {Null}, {<<"alice">>}, {<<"s3cret">>})
  /\ kv \in InitialStores
  /\ InitRequests

\* control moves to next
Goto(p, next) == pc' = [pc EXCEPT ![p] = next]

\* the timeouts of the waits: lines 100, 107, 138-139, 169, 202 and 212,
\* 204 and 213
WidgetTimeout == 5000
UserTimeout == 15000
WatcherTimeout == 15000
RelayTimeout == 30000
PollTimeout == 30000
IdleTimeout == 15000

\* every wait bounded by the longest timeout of the program
BoundLongest(op, e) == 30000

\* how long the operation awaited can take to settle, where the program
\* bounds it: the race of line 190 is over at once when successPromise is
\* Promise.resolve(null), else with the first of the two watchers
Bound(op, e) ==
  CASE op = "waitForSelector.widget" -> WidgetTimeout
    [] op = "waitForSelector.user" -> UserTimeout
    [] op = "Promise.race" ->
         IF Truthy(e.LOGIN_SUCCESS_SELECTOR) THEN WatcherTimeout ELSE 0
    [] op = "waitForNavigation.relay" -> RelayTimeout
    [] op \in {"waitForFunction.expected", "waitForFunction.away"} -> PollTimeout
    [] op = "waitForNavigation.idle" -> IdleTimeout
    [] OTHER -> 0

\* the history h is kept
Kept(h) == h \in recorded

\* the operation awaited has settled with outcome out
Settled(p, op, out) ==
  /\ last' = [last EXCEPT ![p] = IF Kept("steps") \/ op \in StoreOperations
                                  THEN [op |-> op, out |-> out] ELSE NoLast]
  /\ budget' = [budget EXCEPT ![p] = IF Kept("waits") THEN @ + Bound(op, env)
                                                      ELSE @]

\* the await at pc[p] has settled with outcome out; control moves to next
Step(p, op, out, next) == Goto(p, next) /\ Settled(p, op, out)

\* the call issues one more operation of the kind
Issue(p, kind) ==
  ops' = [ops EXCEPT ![p][kind] = IF Kept("ops") THEN @ + 1 ELSE @]

\* the login flow leaves the page at url u with the cookies j the site set
PageAt(p, u, j) ==
  page' = [page EXCEPT ![p] = [url |-> u, jar |-> j, els |-> {}]]

(***************************************************************************)
(* Phase 1: restore the stored session (lines 58-86).                      *)
(***************************************************************************)
\* lines 64-82 without the try of line 58: the error leaves the function
RestoreRethrow == "raised"

\* the catch of lines 83-86: on to the fresh login
RestoreCatch == "gotoLogin"

\* lines 60-63 on the text the store returned (Null: nothing stored):
\* where control goes, the parsed value kept, and what was found
AfterGet(saved) ==
  IF ~Truthy(saved)
    THEN [pc |-> "gotoLogin", cookies |-> NoCookies, loaded |-> "absent"]
  ELSE LET v == JSONParse(saved) IN
    IF ~v.ok
      THEN [pc |-> RestoreCatch, cookies |-> NoCookies, loaded |-> "unparsable"]
    ELSE IF HasLength(v)
      THEN [pc |-> "setCookie", cookies |-> v,
            loaded |-> IF v.kind = "array" THEN "cookies" ELSE "notalist"]
    ELSE [pc |-> "gotoLogin", cookies |-> v,
          loaded |-> IF v.kind = "array" THEN "empty" ELSE "notalist"]

\* env.BROWSER_KV_DEMO.get(key)
\* the store drops an entry expirationTtl seconds after its put
Alive(e) == now < e.at + e.ttl

KvLookup(key) ==
  IF key \in DOMAIN kv /\ Alive(kv[key]) THEN kv[key].val ELSE Null

\* line 59: await env.BROWSER_KV_DEMO.get(cookieKey), then lines 60-63
KvGet(p) ==
  /\ pc[p] = "get"
  /\ storeOps' = [storeOps EXCEPT ![p] =
                    Append(@, [op |-> "get", key |-> args[p].cookieKey,
                               val |-> Null, ttl |-> 0])]
  /\ confirmed' = NoConfirmed
  /\ \/ /\ Step(p, "kv.get", "error", RestoreCatch)
        /\ loaded' = [loaded EXCEPT ![p] = IF Kept("read") THEN "failed" ELSE @]
        /\ UNCHANGED cookies
     \/ LET a == AfterGet(KvLookup(args[p].cookieKey)) IN
        /\ Step(p, "kv.get", "value", a.pc)
        /\ loaded' = [loaded EXCEPT ![p] = IF Kept("read") THEN a.loaded ELSE @]
        /\ cookies' = [cookies EXCEPT ![p] = a.cookies]
  /\ UNCHANGED <<config, kv, args, page, promises, scan, result, ops>>

\* line 64: await page.setCookie(...cookies); what is no cookie list is refused
SetCookie(p) ==
  /\ pc[p] = "setCookie"
  /\ Issue(p, "setCookie")
  /\ \/ /\ cookies[p].kind = "array"
        /\ Step(p, "page.setCookie", "ok", "gotoProbe")
        /\ page' = [page EXCEPT ![p].jar = SetCookies(@, cookies[p].items)]
     \/ /\ Step(p, "page.setCookie", "error", RestoreCatch)
        /\ UNCHANGED page
  /\ UNCHANGED <<config, kv, args, cookies, promises, scan, result, storeOps,
                 loaded, confirmed>>

\* '.profile-avatar' (line 77)
DefaultIndicator == <<".profile-avatar">>

\* the selectors the validator can look up (lines 73, 77)
Indicators == {DefaultIndicator} \cup (SuccessSelectors \ {Null})

\* the probe page: the login URL, showing the elements els
ProbePage(p, els) ==
  page' = [page EXCEPT ![p] = [url |-> args[p].loginUrl, jar |-> @.jar,
                               els |-> els]]

\* line 68: await page.goto(loginUrl, networkidle0), the validator's probe
GotoProbe(p) ==
  /\ pc[p] = "gotoProbe"
  /\ Issue(p, "goto")
  /\ \/ /\ Step(p, "page.goto.probe", "ok", "findIndicator")
        /\ \E els \in SUBSET Indicators : ProbePage(p, els)
     \/ /\ Step(p, "page.goto.probe", "error", RestoreCatch)
        /\ UNCHANGED page
  /\ UNCHANGED <<config, kv, args, cookies, promises, scan, result, storeOps,
                 loaded, confirmed>>

\* lines 72-77 with the configured selector ignored
DefaultIndicatorOnly(e) == DefaultIndicator

\* lines 72-77: the selector the validator looks up
IndicatorSelector(e) ==
  IF Truthy(e.LOGIN_SUCCESS_SELECTOR) THEN e.LOGIN_SUCCESS_SELECTOR
  ELSE DefaultIndicator

\* page.$(selector): an element handle, or null
Query(pg, selector) == selector \in pg.els

\* lines 72-80 without the return of line 76: on to the fresh login
AfterIndicatorNoReturn(found) == "gotoLogin"

\* lines 72-80 once page.$ has answered: return, or fall out of the if
AfterIndicator(found) == IF found THEN "returned" ELSE "gotoLogin"

\* lines 72-80: await page.$(selector)
FindIndicator(p) ==
  /\ pc[p] = "findIndicator"
  /\ LET found == Query(page[p], IndicatorSelector(env)) IN
       \/ Step(p, "page.$.indicator", IF found THEN "found" ELSE "notfound",
               AfterIndicator(found))
       \/ Step(p, "page.$.indicator", "error", RestoreCatch)
  /\ UNCHANGED <<config, kv, args, page, cookies, promises, scan, result, ops,
                 storeOps, loaded, confirmed>>

(***************************************************************************)
(* Phase 2, the login driver (lines 90-147).                               *)
(***************************************************************************)
\* line 96 is outside every try: a failed navigation leaves the function
GotoLoginFailed == "raised"

\* line 96: await page.goto(loginUrl, networkidle0)
GotoLogin(p) ==
  /\ pc[p] = "gotoLogin"
  /\ Issue(p, "goto")
  /\ \/ /\ Step(p, "page.goto.login", "ok", "waitWidget")
        /\ PageAt(p, args[p].loginUrl, page[p].jar)
     \/ /\ Step(p, "page.goto.login", "error", GotoLoginFailed)
        /\ UNCHANGED page
  /\ UNCHANGED <<config, kv, args, cookies, promises, scan, result, storeOps,
                 loaded, confirmed>>

\* lines 99-100 without the try of line 98: the timeout leaves the function
WidgetRethrow == "raised"

\* the catch of lines 101-103: on to the wait for the username field
WidgetCatch == "waitUser"

\* lines 99-103: await page.waitForSelector('.auth0-lock-container', 5 s)
WaitWidget(p) ==
  /\ pc[p] = "waitWidget"
  /\ \/ Step(p, "waitForSelector.widget", "ok", "waitUser")
     \/ Step(p, "waitForSelector.widget", "timeout", WidgetCatch)
  /\ UNCHANGED <<config, kv, args, page, cookies, promises, scan, result, ops,
                 storeOps, loaded, confirmed>>

\* lines 106-110: await page.waitForSelector(userSelector, 15 s)
WaitUser(p) ==
  /\ pc[p] = "waitUser"
  /\ \E out \in {"ok", "timeout"} : Step(p, "waitForSelector.user", out, "findUser")
  /\ UNCHANGED <<config, kv, args, page, cookies, promises, scan, result, ops,
                 storeOps, loaded, confirmed>>

\* lines 114-120 and 126-132 without the test of the element
AfterFindAlways(found, typeStep, skipStep) == typeStep

\* lines 114-120 and 126-132: type only into an element that was found
AfterFind(found, typeStep, skipStep) == IF found THEN typeStep ELSE skipStep

\* lines 113-115, 121: await page.$(userSelector)
FindUser(p) ==
  /\ pc[p] = "findUser"
  /\ \/ Step(p, "page.$.user", "found", AfterFind(TRUE, "typeUser", "findPass"))
     \/ Step(p, "page.$.user", "notfound", AfterFind(FALSE, "typeUser", "findPass"))
     \/ Step(p, "page.$.user", "error", "findPass")
  /\ UNCHANGED <<config, kv, args, page, cookies, promises, scan, result, ops,
                 storeOps, loaded, confirmed>>

\* lines 117, 121-123: await page.type(userSelector, env.LOGIN_USER)
TypeUser(p) ==
  /\ pc[p] = "typeUser"
  /\ Issue(p, "type")
  /\ \E out \in {"ok", "error"} : Step(p, "page.type.user", out, "findPass")
  /\ UNCHANGED <<config, kv, args, page, cookies, promises, scan, result,
                 storeOps, loaded, confirmed>>

\* lines 125-127, 133: await page.$(passSelector)
FindPass(p) ==
  /\ pc[p] = "findPass"
  /\ \/ Step(p, "page.$.pass", "found", AfterFind(TRUE, "typePass", "arm"))
     \/ Step(p, "page.$.pass", "notfound", AfterFind(FALSE, "typePass", "arm"))
     \/ Step(p, "page.$.pass", "error", "arm")
  /\ UNCHANGED <<config, kv, args, page, cookies, promises, scan, result, ops,
                 storeOps, loaded, confirmed>>

\* lines 129, 133-135: await page.type(passSelector, env.LOGIN_PASS)
TypePass(p) ==
  /\ pc[p] = "typePass"
  /\ Issue(p, "type")
  /\ \E out \in {"ok", "error"} : Step(p, "page.type.pass", out, "arm")
  /\ UNCHANGED <<config, kv, args, page, cookies, promises, scan, result,
                 storeOps, loaded, confirmed>>

\* line 139 with a watcher that is a wait whatever the selector
ArmSuccessWait(successSelector) == "pending"

\* line 139: the selector watcher, or Promise.resolve(null) without a selector
ArmSuccess(successSelector) ==
  IF Truthy(successSelector) THEN "pending" ELSE "fulfilled"

\* lines 138-139 moved below the click of line 145: nothing is armed yet
ArmNothing(p) ==
  /\ pc[p] = "arm"
  /\ Step(p, "arm", "armed", "click")
  /\ UNCHANGED <<config, kv, args, page, cookies, promises, scan, result, ops,
                 storeOps, loaded, confirmed>>

\* lines 138-139: both watchers are created, nothing is awaited
ArmWatchers(p) ==
  /\ pc[p] = "arm"
  /\ navPromise' = [navPromise EXCEPT ![p] = "pending"]
  /\ successPromise' =
       [successPromise EXCEPT ![p] = ArmSuccess(env.LOGIN_SUCCESS_SELECTOR)]
  /\ Step(p, "arm", "armed", "click")
  /\ UNCHANGED <<config, kv, args, page, cookies, scan, result, ops, storeOps,
                 loaded, confirmed>>

\* .catch(() => null) of lines 138 and 139: whatever the wait ended with
\* (an element or a response, a timeout, an error) the promise is fulfilled
CatchNull(out) == "fulfilled"

\* page.waitForNavigation(15 s) of line 138 settles
SettleNav(p) ==
  /\ navPromise[p] = "pending"
  /\ \E out \in {"navigated", "timeout", "error"} :
       navPromise' = [navPromise EXCEPT ![p] = CatchNull(out)]
  /\ UNCHANGED <<config, kv, pc, args, page, cookies, successPromise, scan,
                 result, last, ops, storeOps, loaded, confirmed, budget>>

\* page.waitForSelector(successSelector, 15 s) of line 139 settles
SettleSuccess(p) ==
  /\ successPromise[p] = "pending"
  /\ \E out \in {"appeared", "timeout", "error"} :
       successPromise' = [successPromise EXCEPT ![p] = CatchNull(out)]
  /\ UNCHANGED <<config, kv, pc, args, page, cookies, navPromise, scan,
                 result, last, ops, storeOps, loaded, confirmed, budget>>

\* lines 142-147: await page.click(submitSelector).catch(() => null)
ClickSubmit(p) ==
  /\ pc[p] = "click"
  /\ Issue(p, "click")
  /\ \E out \in {"ok", "error"} : Step(p, "page.click", out, "frames")
  /\ UNCHANGED <<config, kv, args, page, cookies, promises, scan, result,
                 storeOps, loaded, confirmed>>

(***************************************************************************)
(* The scan for a relay form (lines 149-186).                              *)
(***************************************************************************)
\* line 165: action && (action has 'callback' || (expected && action has it))
LooksLikeCallback(act, expectedRedirectUrl) ==
  /\ Truthy(act)
  /\ \/ Contains(act, <<"callback">>)
     \/ Truthy(expectedRedirectUrl) /\ Contains(act, expectedRedirectUrl)

\* line 165 throws a TypeError: the action is truthy and no string, so that
\* action.indexOf is not a function
IndexOfThrows(act) == Truthy(act) /\ act = ElementAction

\* line 166: looksLikeCallback || !expectedRedirectUrl
ShouldSubmit(act, expectedRedirectUrl) ==
  LooksLikeCallback(act, expectedRedirectUrl) \/ ~Truthy(expectedRedirectUrl)

\* line 172: break, once the form has been submitted
FormLoopBreaks == TRUE

\* line 181: if (submitted) break
FrameLoopBreaks(sub) == sub

\* the locals of the two loops
ScanTo(p, nf, fi, nfo, fo, sub) ==
  /\ nFrames' = [nFrames EXCEPT ![p] = nf]
  /\ frameIdx' = [frameIdx EXCEPT ![p] = fi]
  /\ nForms' = [nForms EXCEPT ![p] = nfo]
  /\ formIdx' = [formIdx EXCEPT ![p] = fo]
  /\ submitted' = [submitted EXCEPT ![p] = sub]

\* both loops are over: line 183, then the race of line 190
LeaveFrames(p) ==
  /\ ScanTo(p, 0, 0, 0, 0, FALSE)
  /\ Goto(p, "race")

\* the for of line 153 takes the next frame, or is over
NextFrame(p) ==
  IF frameIdx[p] < nFrames[p]
    THEN /\ ScanTo(p, nFrames[p], frameIdx[p] + 1, 0, 0, submitted[p])
         /\ Goto(p, "queryForms")
    ELSE LeaveFrames(p)

\* the for of line 159 takes the next form, or is over (on to line 181);
\* the forms are a constant of the try of line 154
NextForm(p, sub) ==
  IF formIdx[p] < nForms[p]
    THEN /\ ScanTo(p, nFrames[p], frameIdx[p], nForms[p], formIdx[p] + 1, sub)
         /\ Goto(p, "readAction")
    ELSE /\ ScanTo(p, nFrames[p], frameIdx[p], 0, 0, sub)
         /\ Goto(p, "endFrame")

\* line 151: const frames = page.frames(); line 152: let submitted = false
Frames(p) ==
  /\ pc[p] = "frames"
  /\ \E n \in 1..MaxFrames : ScanTo(p, n, 1, 0, 0, FALSE)
  /\ Step(p, "page.frames", "ok", "queryForms")
  /\ UNCHANGED <<config, kv, args, page, cookies, promises, result, ops,
                 storeOps, loaded, confirmed>>

\* lines 155-157, 178-180: await frame.$$('form[method="post"]')
QueryForms(p) ==
  /\ pc[p] = "queryForms"
  /\ \/ /\ Step(p, "frame.$$", "error", "endFrame")
        /\ UNCHANGED scan
     \/ /\ Settled(p, "frame.$$", "none")
        /\ NextFrame(p)
     \/ /\ Step(p, "frame.$$", "forms", "readAction")
        /\ \E m \in 1..MaxForms :
             ScanTo(p, nFrames[p], frameIdx[p], m, 1, submitted[p])
  /\ UNCHANGED <<config, kv, args, page, cookies, promises, result, ops,
                 storeOps, loaded, confirmed>>

\* lines 161-167: await frame.evaluate(form => form.action || ..., f)
\* .catch(() => null), then the test of the action read, a constant whose
\* last use (line 167) comes before the next await; when the test throws,
\* the catch of lines 174-176 logs it and the loop takes the next form
ReadAction(p) ==
  /\ pc[p] = "readAction"
  /\ \E act \in FormActions :
       /\ Settled(p, "frame.evaluate.action", ReadAs(act))
       /\ IF IndexOfThrows(act)
            THEN NextForm(p, submitted[p])
          ELSE IF ShouldSubmit(act, args[p].expectedRedirectUrl)
            THEN /\ Goto(p, "submitForm")
                 /\ UNCHANGED scan
            ELSE NextForm(p, submitted[p])
  /\ UNCHANGED <<config, kv, args, page, cookies, promises, result, ops,
                 storeOps, loaded, confirmed>>

\* line 168: await frame.evaluate(form => form.submit(), f).catch(() => null)
SubmitForm(p) ==
  /\ pc[p] = "submitForm"
  /\ Issue(p, "submit")
  /\ \E out \in {"ok", "error"} : Step(p, "form.submit", out, "relayNav")
  /\ UNCHANGED <<config, kv, args, page, cookies, promises, scan, result,
                 storeOps, loaded, confirmed>>

\* lines 169-172: await page.waitForNavigation(30 s).catch(() => null);
\* submitted = true; break
RelayNav(p) ==
  /\ pc[p] = "relayNav"
  /\ \/ /\ Settled(p, "waitForNavigation.relay", "ok")
        /\ \E u \in PageUrls, j \in Jars : PageAt(p, u, j)
     \/ /\ Settled(p, "waitForNavigation.relay", "timeout")
        /\ UNCHANGED page
  /\ IF FormLoopBreaks
       THEN /\ Goto(p, "endFrame")
            /\ ScanTo(p, nFrames[p], frameIdx[p], 0, 0, TRUE)
       ELSE NextForm(p, TRUE)
  /\ UNCHANGED <<config, kv, args, cookies, promises, result, ops, storeOps,
                 loaded, confirmed>>

\* lines 181-183: leave the loop after a submit, else go on to the next frame
EndFrame(p) ==
  /\ pc[p] = "endFrame"
  /\ IF FrameLoopBreaks(submitted[p]) THEN LeaveFrames(p) ELSE NextFrame(p)
  /\ UNCHANGED <<config, kv, args, page, cookies, promises, result, last, ops,
                 storeOps, loaded, confirmed, budget>>

(***************************************************************************)
(* The completion detector (lines 188-216).                                *)
(***************************************************************************)
\* Promise.all([navPromise, successPromise]) settles when both have settled
AllSettled(nav, success) == nav # "pending" /\ success # "pending"

\* Promise.race([navPromise, successPromise]) settles with the first settled
RaceSettled(nav, success) == nav # "pending" \/ success # "pending"

\* what the race settles with: the first of the array that has settled
RaceOutcome(nav, success) == IF nav # "pending" THEN nav ELSE success

\* a worker that only ever polls for leaving the login page
DestinationAway(expectedRedirectUrl) == "pollAway"

\* lines 197, 209: with an expected URL poll for it, else poll for leaving
DestinationPhase(expectedRedirectUrl) ==
  IF Truthy(expectedRedirectUrl) THEN "pollExpected" ELSE "pollAway"

\* the catch of lines 191-193: logged, on to the destination phase
RaceCatch(next) == next

\* lines 189-193: await Promise.race([navPromise, successPromise])
Race(p) ==
  /\ pc[p] = "race"
  /\ RaceSettled(navPromise[p], successPromise[p])
  /\ LET out == RaceOutcome(navPromise[p], successPromise[p])
         next == DestinationPhase(args[p].expectedRedirectUrl) IN
       Step(p, "Promise.race", out,
            IF out = "rejected" THEN RaceCatch(next) ELSE next)
  /\ UNCHANGED <<config, kv, args, page, cookies, promises, scan, result, ops,
                 storeOps, loaded, confirmed>>

\* line 200 with a predicate that holds of every URL
ReachedAlways(href, expected) == TRUE

\* line 200: window.location.href.indexOf(expected) === 0
ReachedExpected(href, expected) == StartsWith(href, expected)

\* line 211: window.location.href !== login
LeftLogin(href, login) == href # login

\* a catch that waits for the destination for ever: the call never leaves it
RedirectHang == "waiting"

\* the catch of lines 214-216: on to saving the cookies
RedirectCatch == "readCookies"

\* lines 199-203: await page.waitForFunction(..., 30 s, expectedRedirectUrl)
PollExpected(p) ==
  /\ pc[p] = "pollExpected"
  /\ \E u \in PageUrls, j \in Jars :
       /\ PageAt(p, u, j)
       /\ \/ /\ ReachedExpected(u, args[p].expectedRedirectUrl)
             /\ Step(p, "waitForFunction.expected", "ok", "idleExpected")
          \/ /\ ~ReachedExpected(u, args[p].expectedRedirectUrl)
             /\ Step(p, "waitForFunction.expected", "timeout", RedirectCatch)
          \/ Step(p, "waitForFunction.expected", "error", RedirectCatch)
  /\ UNCHANGED <<config, kv, args, cookies, promises, scan, result, ops,
                 storeOps, loaded, confirmed>>

\* line 206: return page.url()
ReturnUrl == "returned"

\* lines 204-206: await page.waitForNavigation(15 s).catch(() => null), then
\* return page.url()
IdleExpected(p) ==
  /\ pc[p] = "idleExpected"
  /\ \/ /\ Step(p, "waitForNavigation.idle", "ok", ReturnUrl)
        /\ \E u \in PageUrls, j \in Jars : PageAt(p, u, j)
     \/ /\ Step(p, "waitForNavigation.idle", "timeout", ReturnUrl)
        /\ UNCHANGED page
  /\ result' = [result EXCEPT ![p] = page'[p].url]
  /\ confirmed' = [ok |-> TRUE, jar |-> page'[p].jar]
  /\ UNCHANGED <<config, kv, args, cookies, promises, scan, ops, storeOps,
                 loaded>>

\* line 211: await page.waitForFunction(..., 30 s, loginUrl).catch(() => null)
PollAway(p) ==
  /\ pc[p] = "pollAway"
  /\ \E u \in PageUrls, j \in Jars :
       /\ PageAt(p, u, j)
       /\ \/ /\ LeftLogin(u, args[p].loginUrl)
             /\ Step(p, "waitForFunction.away", "ok", "idleAway")
          \/ /\ ~LeftLogin(u, args[p].loginUrl)
             /\ Step(p, "waitForFunction.away", "timeout", "idleAway")
          \/ Step(p, "waitForFunction.away", "error", "idleAway")
  /\ UNCHANGED <<config, kv, args, cookies, promises, scan, result, ops,
                 storeOps, loaded, confirmed>>

\* lines 212-213: await page.waitForNavigation(15 s).catch(() => null)
IdleAway(p) ==
  /\ pc[p] = "idleAway"
  /\ \/ /\ Step(p, "waitForNavigation.idle", "ok", "readCookies")
        /\ \E u \in PageUrls, j \in Jars : PageAt(p, u, j)
     \/ /\ Step(p, "waitForNavigation.idle", "timeout", "readCookies")
        /\ UNCHANGED page
  /\ UNCHANGED <<config, kv, args, cookies, promises, scan, result, ops,
                 storeOps, loaded, confirmed>>

(***************************************************************************)
(* Saving the session (lines 218-226).                                     *)
(***************************************************************************)
\* lines 220-222 without the try of line 219: the error leaves the function
SaveRethrow == "raised"

\* a catch that tries the put again
SaveRetry == "put"

\* the catch of lines 223-225: the function ends, returning undefined
SaveCatch == "returned"

\* line 220: const cookies = await page.cookies()
ReadCookies(p) ==
  /\ pc[p] = "readCookies"
  /\ \/ /\ Step(p, "page.cookies", "ok", "put")
        /\ cookies' = [cookies EXCEPT ![p] = Parsed("array", page[p].jar)]
     \/ /\ Step(p, "page.cookies", "error", SaveCatch)
        /\ UNCHANGED cookies
  /\ UNCHANGED <<config, kv, args, page, promises, scan, result, ops, storeOps,
                 loaded, confirmed>>

\* a put that keeps what the key already holds
PutIfAbsent(store, key, text, ttl) ==
  [k \in DOMAIN store \cup {key} |->
     IF k = key /\ k \notin DOMAIN store
       THEN [val |-> text, ttl |-> ttl, at |-> now] ELSE store[k]]

\* env.BROWSER_KV_DEMO.put(key, text, { expirationTtl: ttl })
Put(store, key, text, ttl) ==
  [k \in DOMAIN store \cup {key} |->
     IF k = key THEN [val |-> text, ttl |-> ttl, at |-> now] ELSE store[k]]

\* line 221 with the expirationTtl of line 620
PutArgsOneDay(cookieKey, cs) ==
  [op |-> "put", key |-> cookieKey, val |-> JSONStringify(cs), ttl |-> 86400]

\* line 221: the key, the text and the expirationTtl of the put
PutArgs(cookieKey, cs) ==
  [op |-> "put", key |-> cookieKey, val |-> JSONStringify(cs), ttl |-> CookieTtl]

\* line 221: await env.BROWSER_KV_DEMO.put(cookieKey, JSON.stringify(cookies),
\* { expirationTtl: 60 * 60 * 24 * 7 })
KvPut(p) ==
  /\ pc[p] = "put"
  /\ LET a == PutArgs(args[p].cookieKey, cookies[p].items) IN
       /\ storeOps' = [storeOps EXCEPT ![p] = Append(@, a)]
       /\ \/ /\ Step(p, "kv.put", "ok", "returned")
             /\ kv' = Put(kv, a.key, a.val, a.ttl)
             /\ cleared' = {c \in cleared : c.login # args[p].loginUrl}
          \/ /\ Step(p, "kv.put", "error", SaveCatch)
             /\ UNCHANGED <<kv, cleared>>
  /\ UNCHANGED <<outer, args, page, cookies, promises, scan, result, ops,
                 loaded, confirmed>>

\* the steps of ensureLoggedIn
Login(p) ==
  \/ KvGet(p)
  \/ SetCookie(p)
  \/ GotoProbe(p)
  \/ FindIndicator(p)
  \/ GotoLogin(p)
  \/ WaitWidget(p)
  \/ WaitUser(p)
  \/ FindUser(p)
  \/ TypeUser(p)
  \/ FindPass(p)
  \/ TypePass(p)
  \/ ArmWatchers(p)
  \/ SettleNav(p)
  \/ SettleSuccess(p)
  \/ ClickSubmit(p)
  \/ Frames(p)
  \/ QueryForms(p)
  \/ ReadAction(p)
  \/ SubmitForm(p)
  \/ RelayNav(p)
  \/ EndFrame(p)
  \/ Race(p)
  \/ PollExpected(p)
  \/ IdleExpected(p)
  \/ PollAway(p)
  \/ IdleAway(p)
  \/ ReadCookies(p)
  \/ KvPut(p)

(***************************************************************************)
(* The ensureLoggedIn of the puppeteer worker (lines 391-562), as the step *)
(* it takes from a place of the call on what the store, the page and the  *)
(* browser answered.                                                       *)
(***************************************************************************)
\* what the call awaits at each of its places
PuppeteerOp(at) ==
  CASE at = "get" -> "kv.get"                               \* line 395
    [] at = "setCookie" -> "page.setCookie"                  \* line 400
    [] at = "gotoProbe" -> "page.goto.probe"                 \* line 403
    [] at = "findIndicator" -> "page.$.indicator"            \* lines 407, 411
    [] at = "gotoLogin" -> "page.goto.login"                 \* line 431
    [] at = "waitWidget" -> "waitForSelector.widget"         \* line 435
    [] at = "waitUser" -> "waitForSelector.user"             \* line 442
    [] at = "findUser" -> "page.$.user"                      \* line 449
    [] at = "typeUser" -> "page.type.user"                   \* line 452
    [] at = "findPass" -> "page.$.pass"                      \* line 461
    [] at = "typePass" -> "page.type.pass"                   \* line 464
    [] at = "arm" -> "arm"                                   \* lines 473-474
    [] at = "click" -> "page.click"                          \* line 480
    [] at = "frames" -> "page.frames"                        \* line 486
    [] at = "queryForms" -> "frame.$$"                       \* line 491
    [] at = "readAction" -> "frame.evaluate.action"          \* line 496
    [] at = "submitForm" -> "form.submit"                    \* line 502
    [] at = "relayNav" -> "waitForNavigation.relay"          \* line 503
    [] at = "race" -> "Promise.race"                         \* line 525
    [] at = "pollExpected" -> "waitForFunction.expected"     \* line 534
    [] at = "idleExpected" -> "waitForNavigation.idle"       \* line 540
    [] at = "pollAway" -> "waitForFunction.away"             \* line 547
    [] at = "idleAway" -> "waitForNavigation.idle"           \* line 548
    [] at = "readCookies" -> "page.cookies"                  \* line 556
    [] at = "put" -> "kv.put"                                \* line 557
    [] OTHER -> "none"

\* the timeout option of each wait (lines 435, 442, 473-474, 503, 536, 540,
\* 547, 548), in milliseconds
PuppeteerBound(op, e) ==
  CASE op = "waitForSelector.widget" -> 5000
    [] op = "waitForSelector.user" -> 15000
    [] op = "Promise.race" ->
         IF Truthy(e.LOGIN_SUCCESS_SELECTOR) THEN 15000 ELSE 0
    [] op = "waitForNavigation.relay" -> 30000
    [] op = "waitForFunction.expected" -> 30000
    [] op = "waitForFunction.away" -> 30000
    [] op = "waitForNavigation.idle" -> 15000
    [] OTHER -> 0

\* lines 406-413: the selector looked up on the probe page
PuppeteerIndicator(e) ==
  IF Truthy(e.LOGIN_SUCCESS_SELECTOR) THEN e.LOGIN_SUCCESS_SELECTOR
  ELSE <<".profile-avatar">>

\* lines 395-399: where the text the store returned takes the call
PuppeteerAfterGet(saved) ==
  IF ~Truthy(saved) THEN "gotoLogin"
  ELSE LET cs == JSONParse(saved) IN
    IF ~cs.ok THEN "gotoLogin"                   \* the catch of line 417
    ELSE IF HasLength(cs) THEN "setCookie"
    ELSE "gotoLogin"

\* the for of line 487 goes on to the next frame, or is over
PuppeteerNextFrame(fi, nf) == IF fi < nf THEN "queryForms" ELSE "race"

\* line 498 throws, to the catch of lines 508-510: the action read is an
\* object, which has no indexOf
PuppeteerThrows(act) == act = ElementAction

\* lines 498-499: looksLikeCallback || !expectedRedirectUrl
PuppeteerSubmits(act, expected) ==
  /\ ~PuppeteerThrows(act)
  /\ \/ /\ Truthy(act)
        /\ \/ Contains(act, <<"callback">>)
           \/ Truthy(expected) /\ Contains(act, expected)
     \/ ~Truthy(expected)

\* where the call goes from the place at, the operation awaited there
\* having ended with out; url is where that left the page, act the form
\* action read, forms whether the frame holds POST forms
PuppeteerNext(at, out, a, saved, url, act, fi, nf, fo, nfo, sub) ==
  CASE at = "get" ->
         IF out = "error" THEN "gotoLogin" ELSE PuppeteerAfterGet(saved)
    [] at = "setCookie" -> IF out = "ok" THEN "gotoProbe" ELSE "gotoLogin"
    [] at = "gotoProbe" -> IF out = "ok" THEN "findIndicator" ELSE "gotoLogin"
    [] at = "findIndicator" -> IF out = "found" THEN "returned" ELSE "gotoLogin"
    [] at = "gotoLogin" -> IF out = "ok" THEN "waitWidget" ELSE "raised"
    [] at = "waitWidget" -> "waitUser"
    [] at = "waitUser" -> "findUser"
    [] at = "findUser" -> IF out = "found" THEN "typeUser" ELSE "findPass"
    [] at = "typeUser" -> "findPass"
    [] at = "findPass" -> IF out = "found" THEN "typePass" ELSE "arm"
    [] at = "typePass" -> "arm"
    [] at = "arm" -> "click"
    [] at = "click" -> "frames"
    [] at = "frames" -> "queryForms"
    [] at = "queryForms" ->
         IF out = "error" THEN "endFrame"
         ELSE IF out = "none" THEN PuppeteerNextFrame(fi, nf)
         ELSE "readAction"
    [] at = "readAction" ->
         IF PuppeteerSubmits(act, a.expectedRedirectUrl) THEN "submitForm"
         ELSE IF fo < nfo THEN "readAction" ELSE "endFrame"
    [] at = "submitForm" -> "relayNav"
    [] at = "relayNav" -> "endFrame"
    [] at = "endFrame" -> IF sub THEN "race" ELSE PuppeteerNextFrame(fi, nf)
    [] at = "race" ->
         IF Truthy(a.expectedRedirectUrl) THEN "pollExpected" ELSE "pollAway"
    [] at = "pollExpected" -> IF out = "ok" THEN "idleExpected" ELSE "readCookies"
    [] at = "idleExpected" -> "returned"
    [] at = "pollAway" -> "idleAway"
    [] at = "idleAway" -> "readCookies"
    [] at = "readCookies" -> IF out = "ok" THEN "put" ELSE "returned"
    [] at = "put" -> "returned"
    [] OTHER -> at

\* how the operation awaited at the place can end, where the program decides
\* it: the lookup of lines 406-413, the polls of lines 535 and 547
PuppeteerOutcomes(at, a, e, pg, url) ==
  CASE at = "findIndicator" ->
         {"error", IF PuppeteerIndicator(e) \in pg.els THEN "found" ELSE "notfound"}
    [] at = "pollExpected" ->
         {"error", IF Len(a.expectedRedirectUrl) <= Len(url)
                      /\ SubSeq(url, 1, Len(a.expectedRedirectUrl))
                           = a.expectedRedirectUrl
                     THEN "ok" ELSE "timeout"}
    [] at = "pollAway" -> {"error", IF url # a.loginUrl THEN "ok" ELSE "timeout"}
    [] OTHER -> {"ok", "error", "timeout", "value", "found", "notfound",
                 "armed", "fulfilled", "rejected", "none", "forms", "null",
                 "callback", "resume", "returnTo", "element"}

\* the store operations the call has issued once it has left the place
PuppeteerStoreOps(at, sofar, a, cs) ==
  CASE at = "get" ->
         Append(sofar, [op |-> "get", key |-> a.cookieKey, val |-> Null,
                        ttl |-> 0])
    [] at = "put" ->
         Append(sofar, [op |-> "put", key |-> a.cookieKey,
                        val |-> JSONStringify(cs.items),
                        ttl |-> 60 * 60 * 24 * 7])
    [] OTHER -> sofar

\* lines 409, 413, 542 and the end of the function: what the call returns
PuppeteerResult(at, url, sofar) ==
  IF at = "idleExpected" THEN url ELSE sofar

(***************************************************************************)
(* The diagnostics on their own: every call site with every environment,   *)
(* and log applied to single metadata fields.                              *)
(***************************************************************************)
\* the state of the requests
acquisition ==
  <<reqs, kv, pc, args, page, cookies, navPromise, successPromise, nFrames,
    frameIdx, nForms, formIdx, submitted, result, last, ops, storeOps,
    loaded, confirmed, worker, now, http, cleared, budget, traffic, recorded>>

InitLog ==
  /\ worker = "stagehand"
  /\ reqs = {}
  /\ traffic = {}
  /\ recorded = Histories
  /\ env \in Envs({Null, <<".dashboard">>}, Debugs, Users, Passes)
  /\ kv = <<>>
  /\ InitRequests

\* the call site is reached with these values: line 74 with a selector set
\* (line 72), line 78 with none, line 167 with an action that passed the
\* test of line 165
Reaches(site, e, d) ==
  /\ site.at = 74 => Truthy(e.LOGIN_SUCCESS_SELECTOR)
  /\ site.at = 78 => ~Truthy(e.LOGIN_SUCCESS_SELECTOR)
  /\ site.at = 167 => d.action # JSObject

\* one of the diagnostic calls of the program is reached
LogSite ==
  /\ \E site \in LogSites, d \in LogData :
       LET meta == SiteMeta(site, env, d) IN
         /\ Reaches(site, env, d)
         /\ logCall' = [site |-> site, meta |-> meta]
         /\ console' = Emitted(site, env, meta)
  /\ UNCHANGED <<env, acquisition>>

\* the levels the program logs at
Levels == {"debug", "info", "warn", "error"}

\* names of metadata fields: the secret names, other spellings, another name
FieldNames ==
  {LOGIN_PASS, LOGIN_USER, password, passwd, ToUpperCase(password),
   MetaKeys.cookieKey}

\* the values of a field: a binding (undefined when unset), a URL, the empty
\* string, null
FieldValues(e) ==
  {Binding(e.LOGIN_USER), Binding(e.LOGIN_PASS), JSString(LoginUrl),
   JSString(Null), JSNull, JSUndefined}

\* log is called with one metadata field, named k and holding v
LogField ==
  /\ \E level \in Levels, k \in FieldNames, v \in FieldValues(env) :
       LET site == [at |-> 0, via |-> "log", level |-> level,
                    message |-> "message", keys |-> <<k>>]
           meta == Meta(<<[k |-> k, v |-> v]>>) IN
         /\ logCall' = [site |-> site, meta |-> meta]
         /\ console' = Emitted(site, env, meta)
  /\ UNCHANGED <<env, acquisition>>

NextLog == LogSite \/ LogField

SpecLog == InitLog /\ [][NextLog]_vars

(***************************************************************************)
(* The fetch handlers (lines 228-343 and 565-654) around ensureLoggedIn:   *)
(* every await of a handler is one step.                                   *)
(***************************************************************************)
\* line 620: expirationTtl: 60 * 60 * 24
ScreenshotTtl == 86400

\* the instants the clock of the store shows: the start, and just before and
\* just after the expirationTtl of a put made at the start
Instants == {0, CookieTtl - 1, CookieTtl + 1}

\* page.screenshot(): the picture
Image == <<"img">>

\* the key of a clear of another site's cookies
ClearOtherKey(loginUrl) == <<"cookies:">> \o AppUrl

\* lines 249, 582: `cookies:${loginUrl}`
ClearKey(loginUrl) == <<"cookies:">> \o loginUrl

\* what no step of the handler outside ensureLoggedIn changes
call == <<args, cookies, promises, scan, result, last, ops, storeOps, loaded,
          confirmed, budget>>
world == <<reqs, env, logCall, console, worker, now, traffic, recorded>>

\* the locals of the call are those of a new call
NewCall(p) ==
  /\ page' = [page EXCEPT ![p] = NewPage]
  /\ cookies' = [cookies EXCEPT ![p] = NoCookies]
  /\ navPromise' = [navPromise EXCEPT ![p] = "none"]
  /\ successPromise' = [successPromise EXCEPT ![p] = "none"]
  /\ result' = [result EXCEPT ![p] = Absent]
  /\ last' = [last EXCEPT ![p] = NoLast]
  /\ ops' = [ops EXCEPT ![p] = NoOps]
  /\ storeOps' = [storeOps EXCEPT ![p] = <<>>]
  /\ loaded' = [loaded EXCEPT ![p] = "none"]
  /\ budget' = [budget EXCEPT ![p] = 0]

\* the handler answers with the status and the body
Reply(r, status, body) == [r EXCEPT !.status = status, !.body = body]

\* the handler ends with an error no catch takes
Thrown(r) == Reply(r, "raised", "none")

\* lines 246-256, 258-266 and 311 (580-589, 590-594 and 634): where the
\* parameters of the request take the handler
Route(w, r) ==
  IF r.action = ClearCookiesAction
    THEN IF ~Truthy(r.login)
           THEN [pc |-> "idle", http |-> Reply(r, "400", "text")]
           ELSE [pc |-> "delete", http |-> r]
  ELSE IF Truthy(r.url)
    THEN IF w = "stagehand" /\ Truthy(r.nocache)
           THEN [pc |-> "launch", http |-> r]
           ELSE [pc |-> "cacheGet", http |-> r]
  ELSE IF Truthy(r.login)
    THEN [pc |-> "launch", http |-> r]
  ELSE [pc |-> "idle", http |-> Reply(r, "200", "help")]

\* lines 228-256 (565-589): a request arrives and its parameters are read
Receive(p) ==
  /\ p \in reqs
  /\ pc[p] = "idle"
  /\ \E q \in traffic :
       LET r == [NoHttp EXCEPT !.action = q.action, !.url = q.url,
                               !.login = q.login, !.nocache = q.nocache]
           to == Route(worker, r) IN
         /\ http' = [http EXCEPT ![p] = to.http]
         /\ pc' = [pc EXCEPT ![p] = to.pc]
  /\ args' = [args EXCEPT ![p] = NoArgs]
  /\ NewCall(p)
  /\ UNCHANGED <<world, cleared, kv, scan, confirmed>>

\* env.BROWSER_KV_DEMO.delete(key)
Delete(store, key) == [k \in DOMAIN store \ {key} |-> store[k]]

\* lines 248-254 (581-587): await env.BROWSER_KV_DEMO.delete(...) in its try
ClearCookies(p) ==
  /\ pc[p] = "delete"
  /\ pc' = [pc EXCEPT ![p] = "idle"]
  /\ LET key == ClearKey(http[p].login) IN
       \/ /\ kv' = Delete(kv, key)
          /\ cleared' = {c \in cleared : c.login # http[p].login} \cup
                           {[login |-> http[p].login,
                             had |-> KvLookup(CookieKey(http[p].login)) # Null]}
          /\ http' = [http EXCEPT ![p] = Reply(@, "200", "text")]
       \/ /\ http' = [http EXCEPT ![p] = Reply(@, "500", "text")]
          /\ UNCHANGED <<kv, cleared>>
  /\ UNCHANGED <<world, call, page>>

\* lines 263 and 267, 320 (593-594, 631): img = await
\* env.BROWSER_KV_DEMO.get(url); the cached picture is the response
CacheGet(p) ==
  /\ pc[p] = "cacheGet"
  /\ \/ LET img == KvLookup(http[p].url) IN
          IF img = Null
            THEN /\ pc' = [pc EXCEPT ![p] = "launch"]
                 /\ UNCHANGED http
            ELSE /\ pc' = [pc EXCEPT ![p] = "idle"]
                 /\ http' = [http EXCEPT ![p] =
                               Reply([@ EXCEPT !.img = img], "200", "image")]
     \/ /\ pc' = [pc EXCEPT ![p] = "idle"]
        /\ http' = [http EXCEPT ![p] = Thrown(@)]
  /\ UNCHANGED <<world, call, page, kv, cleared>>

\* lines 281-282, 318-324 (598-599, 638): the credentials the login needs
MissingCredentials(e) == ~Truthy(e.LOGIN_USER) \/ ~Truthy(e.LOGIN_PASS)

\* lines 281-292 and 324-329 (597-610 and 638-643) once the browser is up:
\* where the handler goes. The handler of lines 228-343 declares no
\* `browser`: at line 283 `browser.close()` is a ReferenceError, the handler
\* ends there with its browser up
AfterLaunch(w, r, e) ==
  IF Truthy(r.login)
    THEN IF MissingCredentials(e)
           THEN IF w = "stagehand" /\ Truthy(r.url) THEN "idle" ELSE "refuse"
           ELSE "get"
    ELSE "directGoto"

\* the handler has its page and r is its request: with credentials and a
\* login URL it calls ensureLoggedIn (lines 287, 329, 604, 643), which runs up
\* to its first await
Enter(p, r) ==
  LET to == AfterLaunch(worker, r, env) IN
    /\ pc' = [pc EXCEPT ![p] = to]
    /\ http' = [http EXCEPT ![p] = IF to = "idle" THEN Thrown(r) ELSE r]
    /\ args' = [args EXCEPT ![p] =
                  IF to = "get"
                    THEN [loginUrl |-> r.login,
                          cookieKey |-> CookieKey(r.login),
                          expectedRedirectUrl |-> r.url]
                    ELSE NoArgs]

\* lines 277 and 323: await stagehand.init(); lines 595 and 637: const
\* browser = await puppeteer.launch(env.MYBROWSER)
Launch(p) ==
  /\ pc[p] = "launch"
  /\ \/ IF worker = "stagehand"
          THEN Enter(p, [http[p] EXCEPT !.browser = "open"])
          ELSE /\ pc' = [pc EXCEPT ![p] = "newPage"]
               /\ http' = [http EXCEPT ![p].browser = "open"]
               /\ UNCHANGED args
     \/ /\ pc' = [pc EXCEPT ![p] = "idle"]
        /\ http' = [http EXCEPT ![p] = Thrown(@)]
        /\ UNCHANGED args
  /\ UNCHANGED <<world, cookies, promises, scan, result, last, ops, storeOps,
                 loaded, confirmed, budget, page, kv, cleared>>

\* lines 596 and 638: const page = await browser.newPage()
BrowserNewPage(p) ==
  /\ pc[p] = "newPage"
  /\ \/ Enter(p, http[p])
     \/ /\ pc' = [pc EXCEPT ![p] = "idle"]
        /\ http' = [http EXCEPT ![p] = Thrown(@)]
        /\ UNCHANGED args
  /\ UNCHANGED <<world, cookies, promises, scan, result, last, ops, storeOps,
                 loaded, confirmed, budget, page, kv, cleared>>

\* lines 326-327, 600-601, 640-641: the close before the 400 resolved
RefuseClose(r) == Reply([r EXCEPT !.browser = "closed"], "400", "text")

\* lines 325-327 (599-602, 639-642): no credentials; await stagehand.close()
\* or await browser.close() resolves, or rejects and the handler ends with
\* its error
Refuse(p) ==
  /\ pc[p] = "refuse"
  /\ pc' = [pc EXCEPT ![p] = "idle"]
  /\ \/ http' = [http EXCEPT ![p] = RefuseClose(@)]
     \/ http' = [http EXCEPT ![p] = Thrown(@)]
  /\ UNCHANGED <<world, call, page, kv, cleared>>

\* ensureLoggedIn raised: no catch of the handler takes the error
Rethrow(p) ==
  /\ pc[p] = "raised"
  /\ pc' = [pc EXCEPT ![p] = "idle"]
  /\ http' = [http EXCEPT ![p] = Thrown(@)]
  /\ UNCHANGED <<world, call, page, kv, cleared>>

\* lines 288-290 (605-608): const screenshotUrl = finalAfterLogin || url;
\* await page.goto(screenshotUrl, ...).catch(() => null)
ScreenshotGoto(p) ==
  /\ pc[p] = "returned"
  /\ Truthy(http[p].url)
  /\ pc' = [pc EXCEPT ![p] = "screenshot"]
  /\ LET screenshotUrl == IF Truthy(result[p]) THEN result[p] ELSE http[p].url
     IN \/ page' = [page EXCEPT ![p].url = screenshotUrl, ![p].els = {}]
        \/ UNCHANGED page
  /\ UNCHANGED <<world, call, http, kv, cleared>>

\* lines 292-293 (609-610): await page.goto(url)
DirectGoto(p) ==
  /\ pc[p] = "directGoto"
  /\ \/ /\ pc' = [pc EXCEPT ![p] = "screenshot"]
        /\ page' = [page EXCEPT ![p].url = http[p].url, ![p].els = {}]
        /\ UNCHANGED http
     \/ /\ pc' = [pc EXCEPT ![p] = "idle"]
        /\ http' = [http EXCEPT ![p] = Thrown(@)]
        /\ UNCHANGED page
  /\ UNCHANGED <<world, call, kv, cleared>>

\* lines 297-302 and 330-335 (612-617 and 644-649): await page.screenshot()
Screenshot(p) ==
  /\ \/ pc[p] = "screenshot"
     \/ pc[p] = "returned" /\ ~Truthy(http[p].url)
  /\ \/ /\ pc' = [pc EXCEPT ![p] =
                    IF worker = "puppeteer" /\ Truthy(http[p].url)
                      THEN "cachePut" ELSE "close"]
        /\ http' = [http EXCEPT ![p].img = Image]
     \/ /\ pc' = [pc EXCEPT ![p] = "idle"]
        /\ http' = [http EXCEPT ![p] = Thrown(@)]
  /\ UNCHANGED <<world, call, page, kv, cleared>>

\* lines 618-625: await env.BROWSER_KV_DEMO.put(url, img, { expirationTtl:
\* 60 * 60 * 24 }) in its try
CachePut(p) ==
  /\ pc[p] = "cachePut"
  /\ pc' = [pc EXCEPT ![p] = "close"]
  /\ \/ kv' = Put(kv, http[p].url, http[p].img, ScreenshotTtl)
     \/ UNCHANGED kv
  /\ UNCHANGED <<world, call, page, http, cleared>>

\* lines 306 and 336 (626 and 650): await stagehand.close(), or await
\* browser.close(); then the picture is the response
Close(p) ==
  /\ pc[p] = "close"
  /\ pc' = [pc EXCEPT ![p] = "idle"]
  /\ \/ http' = [http EXCEPT ![p] =
                   Reply([@ EXCEPT !.browser = "closed"], "200", "image")]
     \/ http' = [http EXCEPT ![p] = Thrown(@)]
  /\ UNCHANGED <<world, call, page, kv, cleared>>

\* time passes, also while a request is suspended at an await
Tick ==
  /\ \E t \in Instants : t > now /\ now' = t
  /\ UNCHANGED <<reqs, env, logCall, console, worker, traffic, recorded, http,
                 cleared, kv, pc, call, page>>

(***************************************************************************)
(* One request at a time for a login, served by the Stagehand handler with *)
(* the credentials in its environment.                                     *)
(***************************************************************************)
Init ==
  /\ reqs = {1}
  /\ traffic = LoginRequests
  /\ recorded = Histories
  /\ InitCommon

Next ==
  \E p \in Procs :
    \/ Receive(p)
    \/ CacheGet(p)
    \/ Launch(p)
    \/ Login(p)
    \/ Rethrow(p)
    \/ ScreenshotGoto(p)
    \/ Screenshot(p)
    \/ Close(p)

Spec == Init /\ [][Next]_vars

\* every operation awaited settles and the continuation of a settled await
\* runs: some step is taken whenever one can be
InitLive ==
  /\ reqs = {1}
  /\ traffic = LoginRequests
  /\ recorded = Histories
  /\ worker = "stagehand"
  /\ env \in Envs(SuccessSelectors, {Null}, {<<"alice">>}, {<<"s3cret">>})
  /\ kv \in {<<>>,
            [k \in {CookieKey(LoginUrl)} |-> Entry(JSONStringify(<<"sid">>))]}
  /\ InitRequests

\* a request up to the end of its call of ensureLoggedIn
NextLive ==
  \E p \in Procs :
    \/ Receive(p)
    \/ CacheGet(p)
    \/ Launch(p)
    \/ Login(p)

SpecLive == InitLive /\ [][NextLive]_vars /\ WF_vars(NextLive)

(***************************************************************************)
(* Either handler, with or without the credentials, every request, the     *)
(* clock of the store.                                                     *)
(***************************************************************************)

InitWorker ==
  /\ reqs = {1}
  /\ worker \in Variants
  /\ traffic = Requests(worker)
  /\ recorded = {"read"}
  /\ env \in Envs({<<".dashboard">>}, {Null}, {Null, <<"alice">>},
                  {Null, <<"s3cret">>})
  /\ kv = <<>>
  /\ InitRequests

NextWorker ==
  \/ Tick
  \/ \E p \in Procs :
       \/ Receive(p)
       \/ ClearCookies(p)
       \/ CacheGet(p)
       \/ Launch(p)
       \/ BrowserNewPage(p)
       \/ Refuse(p)
       \/ Login(p)
       \/ Rethrow(p)
       \/ ScreenshotGoto(p)
       \/ DirectGoto(p)
       \/ Screenshot(p)
       \/ CachePut(p)
       \/ Close(p)

SpecWorker == InitWorker /\ [][NextWorker]_vars

(***************************************************************************)
(* Two requests for a login served at once, each with its own browser, on  *)
(* one store: each up to the end of its call of ensureLoggedIn.            *)
(***************************************************************************)
InitConc ==
  /\ reqs = {1, 2}
  /\ traffic = LoginRequests
  /\ recorded = {}
  /\ worker = "stagehand"
  /\ env \in Envs({<<".dashboard">>}, {Null}, {<<"alice">>}, {<<"s3cret">>})
  /\ kv = <<>>
  /\ InitRequests

NextConc ==
  \E p \in Procs :
    \/ Receive(p)
    \/ CacheGet(p)
    \/ Launch(p)
    \/ Login(p)

SpecConc == InitConc /\ [][NextConc]_vars

(***************************************************************************)
(* Vocabulary of the properties.                                           *)
(***************************************************************************)
\* 7 days, in seconds
SevenDays == 7 * 24 * 60 * 60

\* the places of ensureLoggedIn: the operation it awaits
LoginPlaces ==
  {"get", "setCookie", "gotoProbe", "findIndicator", "gotoLogin", "waitWidget",
   "waitUser", "findUser", "typeUser", "findPass", "typePass", "arm", "click",
   "frames", "queryForms", "readAction", "submitForm", "relayNav", "endFrame",
   "race", "pollExpected", "idleExpected", "pollAway", "idleAway",
   "readCookies", "put"}

\* request p is in its call of ensureLoggedIn, or the call has just ended
InCall(p) == pc[p] \in LoginPlaces \cup {"returned", "raised"}

\* the call of request p has returned to its caller
Returned(p) == pc[p] = "returned"

\* the call of request p went through the fresh login (it clicked submit)
TookFreshLogin(p) == ops[p].click > 0

\* the puts among the KV operations of request p
PutsOf(p) == SelectSeq(storeOps[p], LAMBDA o : o.op = "put")

\* the only KV operation of request p is its read of the key
OnlyRead(p) ==
  /\ Len(storeOps[p]) = 1
  /\ storeOps[p][1].op = "get"
  /\ storeOps[p][1].key = args[p].cookieKey

\* the last operation of the call of request p was op and ended with out
Ended(p, op, out) == InCall(p) /\ last[p] = [op |-> op, out |-> out]

\* C1: every call that takes the fresh-login path and returns normally has
\* attempted exactly one put of the page's current cookies under cookieKey
\* with a 7-day TTL, whatever the completion detector found (a call whose
\* page.cookies() failed has no cookies to put and is left out).
C1_OnePutBeforeReturn ==
  \A p \in Procs :
    (Returned(p) /\ TookFreshLogin(p) /\ last[p].op # "page.cookies")
      => /\ Len(PutsOf(p)) = 1
         /\ PutsOf(p)[1].key = args[p].cookieKey
         /\ PutsOf(p)[1].val = JSONStringify(page[p].jar)
         /\ PutsOf(p)[1].ttl = SevenDays

\* C2: starting with no stored session, a call whose page reaches the
\* post-login URL within the timeouts returns that URL and has persisted the
\* page's cookies under 'cookies:' + loginUrl.
C2_ReturnsUrlAndPersists ==
  \A p \in Procs :
    (Returned(p) /\ loaded[p] = "absent" /\ TookFreshLogin(p)
       /\ last[p].op = "waitForNavigation.idle"
       /\ Truthy(args[p].expectedRedirectUrl)
       /\ StartsWith(page[p].url, args[p].expectedRedirectUrl))
      => /\ result[p] = page[p].url
         /\ (<<"cookies:">> \o args[p].loginUrl) \in DOMAIN kv
         /\ kv[<<"cookies:">> \o args[p].loginUrl].val = JSONStringify(page[p].jar)

\* C3: after an acquisition that logged in successfully (it returned the
\* destination it reached, holding a non-empty cookie set), the next
\* acquisition for the login URL loads that cookie set from the store and
\* goes on to apply it to the page.
C3_LaterAcquisitionLoadsSession ==
  [][\A p \in Procs :
       (pc[p] = "get" /\ confirmed.ok /\ confirmed.jar # <<>>
          /\ last'[p] = [op |-> "kv.get", out |-> "value"])
         => (pc'[p] = "setCookie" /\ cookies'[p].items = confirmed.jar)]_vars

\* C4: when the stored cookie set is non-empty and the validator finds the
\* logged-in indicator, the call returns absent having navigated once (the
\* probe), typed nothing, clicked nothing, submitted no form, and issued no
\* KV operation but its read.
C4_ValidSessionSkipsLogin ==
  \A p \in Procs :
    Ended(p, "page.$.indicator", "found")
      => /\ Returned(p)
         /\ result[p] = Absent
         /\ loaded[p] = "cookies"
         /\ ops[p] = [setCookie |-> 1, goto |-> 1, type |-> 0, click |-> 0,
                      submit |-> 0]
         /\ OnlyRead(p)
         /\ navPromise[p] = "none" /\ successPromise[p] = "none"

C4_Witness ==
  \E p \in Procs : Returned(p) /\ Ended(p, "page.$.indicator", "found")

\* the reads of the store that yield no usable cookie list
NoSession == {"absent", "failed", "unparsable", "notalist", "empty"}

\* C5: when the stored value is absent, cannot be loaded, is not parseable as
\* a cookie list or is an empty list, the call goes on to the fresh login
\* (no validator success) and does not raise.
C5_BadStoreNeverRaises ==
  \A p \in Procs :
    loaded[p] \in NoSession
      => /\ pc[p] # "raised"
         /\ ~Ended(p, "page.$.indicator", "found")

\* the operations of the validator's probe
ProbeOps == {"page.setCookie", "page.goto.probe", "page.$.indicator"}

\* C6: an error raised while probing a restored session (applying the
\* cookies, navigating to the login URL, looking up the indicator) is not
\* propagated: the call has not returned and has not raised, it is about to
\* start the fresh login, and its only KV operation is still its read.
C6_ProbeErrorsSwallowed ==
  \A p \in Procs :
    (last[p].op \in ProbeOps /\ last[p].out = "error")
      => /\ pc[p] = "gotoLogin"
         /\ OnlyRead(p)
         /\ result[p] = Absent
         /\ ops[p].type = 0 /\ ops[p].click = 0

C6_Witness ==
  \E p \in Procs : Ended(p, "page.goto.probe", "error") /\ pc[p] = "gotoLogin"

\* the steps of the login driver, and the step each is followed by
DriverOps ==
  {"page.goto.login", "waitForSelector.widget", "waitForSelector.user",
   "page.$.user", "page.type.user", "page.$.pass", "page.type.pass",
   "page.click"}

StepAfter(op) ==
  CASE op = "page.goto.login" -> "waitWidget"
    [] op = "waitForSelector.widget" -> "waitUser"
    [] op = "waitForSelector.user" -> "findUser"
    [] op \in {"page.$.user", "page.type.user"} -> "findPass"
    [] op \in {"page.$.pass", "page.type.pass"} -> "arm"
    [] op = "page.click" -> "frames"

\* C7: on the fresh-login path the failure of a driver step (navigating to
\* the login URL, waiting for the widget, waiting for the username field,
\* typing the username, typing the password, clicking submit) does not abort
\* the call: it does not raise and the next step is attempted.
C7_DriverStepFailureContinues ==
  \A p \in Procs :
    (last[p].op \in DriverOps /\ last[p].out \in {"error", "timeout"})
      => /\ pc[p] # "raised"
         /\ pc[p] = StepAfter(last[p].op)

\* the phase that follows the time-out of each bounded wait
AfterTimeout(op) ==
  CASE op = "waitForSelector.widget" -> {"waitUser"}
    [] op = "waitForSelector.user" -> {"findUser"}
    [] op = "waitForNavigation.relay" -> {"endFrame", "race"}
    [] op = "waitForFunction.expected" -> {"readCookies"}
    [] op = "waitForFunction.away" -> {"idleAway"}
    [] op = "waitForNavigation.idle" -> {"readCookies", "returned"}
    [] OTHER -> {}

\* the values a call returns
Results == {Absent} \cup PageUrls

\* C8: no time-out of a bounded wait of the fresh login (widget wait,
\* username-field wait, the two watchers, relay navigation wait, destination
\* poll, network-idle wait) makes the call raise: after the time-out the call
\* is at the next phase, a timed-out watcher is a fulfilled promise, and a
\* call that returns returns absent or a URL.
C8_TimeoutsNeverRaise ==
  \A p \in Procs :
    /\ (InCall(p) /\ last[p].out = "timeout")
         => (pc[p] # "raised" /\ pc[p] \in AfterTimeout(last[p].op))
    /\ CatchNull("timeout") = "fulfilled"
    /\ navPromise[p] # "rejected" /\ successPromise[p] # "rejected"
    /\ pc[p] = "raised" => last[p].out # "timeout"
    /\ Returned(p) => result[p] \in Results

C8_Witness ==
  \E p \in Procs :
    /\ Ended(p, "waitForFunction.expected", "timeout")
    /\ pc[p] = "readCookies"
    /\ navPromise[p] = "fulfilled"

\* a form qualifies when its action contains 'callback' or the expected
\* destination, or when no destination is expected, whatever its action
Qualifies(act, expected) ==
  \/ Contains(act, <<"callback">>)
  \/ Truthy(expected) /\ Contains(act, expected)
  \/ ~Truthy(expected)

\* C9: during one acquisition at most one POST form is submitted; each form
\* reached in frame order and, within a frame, form order is submitted exactly
\* when it qualifies, so the one submitted is the first that qualifies; once
\* a form has been submitted no later form or frame is looked at.
C9_AtMostOneRelayForm ==
  \A p \in Procs :
    /\ ops[p].submit <= 1
    /\ last[p].op = "frame.evaluate.action"
         => (pc[p] = "submitForm"
               <=> Qualifies(ActionOf(last[p].out),
                             args[p].expectedRedirectUrl))
    /\ ops[p].submit = 1
         => pc[p] \notin {"queryForms", "readAction", "submitForm"}
    /\ submitted[p] => ops[p].submit = 1

\* one of the two watchers of request p has settled
SomeSettled(p) == navPromise[p] # "pending" \/ successPromise[p] # "pending"

\* a watcher of request p settles in this step
Settles(p) ==
  \/ navPromise[p] = "pending" /\ navPromise'[p] = "fulfilled"
  \/ successPromise[p] = "pending" /\ successPromise'[p] = "fulfilled"

\* the phases after the race
PastRace ==
  {"pollExpected", "idleExpected", "pollAway", "idleAway", "readCookies",
   "put", "returned"}

\* C10: the call leaves the race for the destination phase as soon as, and
\* only when, one of the two watchers has settled; no watcher is ever a
\* rejected promise and the race never makes the call raise; a watcher that
\* settles after the race changes neither the phase the call is in, nor its
\* result, its page or the store.
C10_FirstSettledWatcherDecides ==
  /\ [](\A p \in Procs :
          /\ navPromise[p] # "rejected" /\ successPromise[p] # "rejected"
          /\ pc[p] = "race" => (ENABLED Race(p) <=> SomeSettled(p))
          /\ last[p].op = "Promise.race"
               => pc[p] = (IF Truthy(args[p].expectedRedirectUrl)
                             THEN "pollExpected" ELSE "pollAway"))
  /\ [][\A p \in Procs :
          /\ (pc[p] = "race" /\ pc'[p] # "race") => SomeSettled(p)
          /\ (pc[p] \in PastRace /\ Settles(p))
               => /\ pc'[p] = pc[p]
                  /\ result' = result
                  /\ last' = last
                  /\ page' = page
                  /\ kv' = kv]_vars

C10_Witness ==
  \E p \in Procs :
    /\ pc[p] = "pollExpected"
    /\ Ended(p, "Promise.race", "fulfilled")
    /\ Truthy(env.LOGIN_SUCCESS_SELECTOR)
    /\ successPromise[p] = "fulfilled"
    /\ navPromise[p] = "pending"

\* C11: with an expected destination the call returns the page's URL, and
\* only after the poll has seen the page's URL begin with the expected
\* destination; when the poll times out, or when no destination is expected,
\* the call returns absent.
C11_UrlOnlyAfterDestinationSeen ==
  \A p \in Procs :
    /\ pc[p] = "idleExpected"
         => /\ Ended(p, "waitForFunction.expected", "ok")
            /\ Truthy(args[p].expectedRedirectUrl)
            /\ StartsWith(page[p].url, args[p].expectedRedirectUrl)
    /\ (Returned(p) /\ result[p] # Absent)
         => /\ last[p].op = "waitForNavigation.idle"
            /\ Truthy(args[p].expectedRedirectUrl)
            /\ result[p] = page[p].url
    /\ (Returned(p) /\ last[p].op = "waitForNavigation.idle")
         => result[p] = page[p].url
    /\ Ended(p, "waitForFunction.expected", "timeout")
         => (pc[p] = "readCookies" /\ result[p] = Absent)
    /\ (Returned(p) /\ last[p].op \in {"page.cookies", "kv.put"})
         => result[p] = Absent
    /\ (Returned(p) /\ ~Truthy(args[p].expectedRedirectUrl))
         => result[p] = Absent

C11_Witness ==
  \E p \in Procs :
    /\ Returned(p)
    /\ args[p].expectedRedirectUrl = AppUrl
    /\ result[p] = AppHome

\* C12: when reading the page's cookies or the put fails at the end of a
\* fresh login the call does not raise: it returns, and returns absent, as
\* it does when the put succeeds.
C12_SaveFailureSameResult ==
  \A p \in Procs :
    (\/ Ended(p, "page.cookies", "error")
     \/ Ended(p, "kv.put", "error")
     \/ Ended(p, "kv.put", "ok"))
      => (Returned(p) /\ result[p] = Absent /\ TookFreshLogin(p))

C12_Witness ==
  \E p \in Procs :
    /\ Ended(p, "kv.put", "error")
    /\ Returned(p)
    /\ Len(PutsOf(p)) = 1

\* C20: on the fresh-login path the navigation watcher and the selector
\* watcher (a resolved promise when no success selector is configured) exist
\* before the submit control is clicked and before a relay form is submitted.
C20_WatchersArmedBeforeSubmit ==
  \A p \in Procs :
    (pc[p] \in {"click", "submitForm"} \/ ops[p].click > 0 \/ ops[p].submit > 0)
      => /\ navPromise[p] \in {"pending", "fulfilled"}
         /\ successPromise[p] \in {"pending", "fulfilled"}
         /\ ~Truthy(env.LOGIN_SUCCESS_SELECTOR)
              => successPromise[p] = "fulfilled"

C20_Witness ==
  \E p \in Procs :
    /\ pc[p] = "frames"
    /\ ops[p].click = 1
    /\ navPromise[p] = "pending"
    /\ successPromise[p] = "pending"

\* C19: a restored session is judged valid exactly when the configured
\* success selector, if there is one, matches on the probe page, or, with none
\* configured, when '.profile-avatar' matches; a configured selector that does
\* not match makes the session not valid even where '.profile-avatar' matches.
C19_ValidatorIndicator ==
  \A p \in Procs :
    (InCall(p) /\ last[p].op = "page.$.indicator" /\ last[p].out # "error")
      => LET configured == env.LOGIN_SUCCESS_SELECTOR
             matches == IF configured # <<>>
                          THEN configured \in page[p].els
                          ELSE <<".profile-avatar">> \in page[p].els
         IN /\ (Returned(p) /\ last[p].out = "found") <=> matches
            /\ (pc[p] = "gotoLogin" /\ last[p].out = "notfound") <=> ~matches

C19_Witness ==
  \E p \in Procs :
    /\ Ended(p, "page.$.indicator", "notfound")
    /\ pc[p] = "gotoLogin"
    /\ env.LOGIN_SUCCESS_SELECTOR = <<".dashboard">>
    /\ page[p].els = {<<".profile-avatar">>}

\* the names of the secret-name list
SecretNames ==
  {<<"L", "O", "G", "I", "N", "_", "P", "A", "S", "S">>,
   <<"L", "O", "G", "I", "N", "_", "U", "S", "E", "R">>,
   <<"p", "a", "s", "s", "w", "o", "r", "d">>,
   <<"p", "a", "s", "s", "w", "d">>}

\* the line shows the field named k with the text v
Shows(line, k, v) ==
  \E j \in 1..(Len(line) - 2) :
    line[j] = JSONString(k) /\ line[j + 1] = <<":">> /\ line[j + 2] = JSONString(v)

\* C14: a metadata field named LOGIN_PASS, LOGIN_USER, password or passwd is
\* written by log as '****' and never with the value it was given, at every
\* level.
C14_SecretFieldsMasked ==
  \A i \in DOMAIN logCall.meta.entries, n \in DOMAIN console :
    LET field == logCall.meta.entries[i] IN
      (logCall.site.via = "log" /\ field.k \in SecretNames)
        => /\ Shows(console[n], field.k, <<"****">>)
           /\ field.v.js = "string" => ~Shows(console[n], field.k, field.v.s)

\* a piece of the line holds the text v
Mentions(line, v) == Truthy(v) /\ \E j \in DOMAIN line : Contains(line[j], v)

\* the environment with other credentials
WithCredentials(e, user, pass) ==
  [e EXCEPT !.LOGIN_USER = user, !.LOGIN_PASS = pass]

\* C15: no diagnostic line written at a call site of ensureLoggedIn or fetch
\* (through log or console.warn) holds the value of LOGIN_USER or LOGIN_PASS,
\* and with other credentials in the environment the same call site writes
\* the same lines.
C15_NoCredentialInDiagnostics ==
  logCall.site.at # 0
    => /\ \A n \in DOMAIN console :
            /\ ~Mentions(console[n], env.LOGIN_USER)
            /\ ~Mentions(console[n], env.LOGIN_PASS)
       /\ \A user \in Users, pass \in Passes, d \in LogData :
            SiteMeta(logCall.site, env, d) = logCall.meta
              => LET other == WithCredentials(env, user, pass) IN
                   Emitted(logCall.site, other, SiteMeta(logCall.site, other, d))
                     = console

C15_Witness ==
  /\ logCall.site.at = 122
  /\ Len(console) = 1
  /\ Mentions(console[1], <<"Navigation timeout of 30000 ms exceeded">>)

\* request p went down a branch that requires a login: its browser was
\* brought up for a login URL
LoginBranch(p) ==
  /\ http[p].action # ClearCookiesAction
  /\ Truthy(http[p].login)
  /\ http[p].browser # "none"

\* the handler has answered request p, or has thrown
Answered(p) == pc[p] = "idle" /\ http[p].status # "none"

\* request p has called ensureLoggedIn
Invoked(p) == args[p] # NoArgs

\* C13: in every branch of either handler that requires a login, with
\* LOGIN_USER or LOGIN_PASS missing the answer is a 400 and ensureLoggedIn is
\* never called
C13_MissingCredentialsRefused ==
  \A p \in Procs :
    LoginBranch(p) /\ MissingCredentials(env) =>
      /\ ~Invoked(p)
      /\ Answered(p) => http[p].status = "400"

\* the call of request p has just read the store
JustRead(p) == last[p].op = "kv.get" /\ last[p].out = "value"

\* a clear-cookies for the login URL was answered with a 200 and no
\* acquisition for it has saved a session since
Cleared(loginUrl) == \E c \in cleared : c.login = loginUrl

\* C18: the key ensureLoggedIn is called with and the key clear-cookies
\* deletes are the same function of the login URL, 'cookies:' + loginUrl;
\* after a successful clear-cookies the next acquisition for the login URL
\* reads nothing from the store and goes to the fresh login
C18_ClearedSessionIsGone ==
  \A p \in Procs :
    Invoked(p) =>
      /\ args[p].cookieKey = <<"cookies:">> \o args[p].loginUrl
      /\ JustRead(p) /\ Cleared(args[p].loginUrl) =>
           loaded[p] = "absent" /\ pc[p] = "gotoLogin"

\* a stored session was cleared and the next acquisition has read the store
C18_Witness ==
  \E p \in Procs :
    /\ Invoked(p)
    /\ JustRead(p)
    /\ [login |-> args[p].loginUrl, had |-> TRUE] \in cleared
    /\ pc[p] = "gotoLogin"

\* the age of what the store keeps under the key
Age(key) == now - kv[key].at

\* this step is the read of the store by request p, and the store answered
Reads(p) ==
  /\ pc[p] = "get"
  /\ last'[p] = [op |-> "kv.get", out |-> "value"]

\* C17: a cookie set ensureLoggedIn persisted is what a load of the key
\* yields at any time before its TTL of seven days has elapsed; after it has
\* elapsed the load yields nothing and the acquisition goes to the fresh
\* login (the age is that at the load: the clock goes on while the call is
\* suspended)
C17_SessionExpiresAfterTtl ==
  [][\A p \in Procs :
       Reads(p) /\ args[p].cookieKey \in DOMAIN kv =>
         LET e == kv[args[p].cookieKey] IN
           /\ Age(args[p].cookieKey) < SevenDays =>
                loaded'[p] # "absent" /\ cookies'[p] = JSONParse(e.val)
           /\ Age(args[p].cookieKey) > SevenDays =>
                loaded'[p] = "absent" /\ pc'[p] = "gotoLogin"]_vars

\* an acquisition has read the store more than seven days after a session
\* was persisted
C17_Witness ==
  \E p \in Procs :
    /\ Invoked(p)
    /\ JustRead(p)
    /\ args[p].cookieKey \in DOMAIN kv
    /\ Age(args[p].cookieKey) > SevenDays
    /\ loaded[p] = "absent"
    /\ pc[p] = "gotoLogin"

\* this step is the put of request p, and the store took it
PutDone(p) ==
  /\ pc[p] = "put"
  /\ last'[p] = [op |-> "kv.put", out |-> "ok"]

\* C16: acquisitions running at once for one cookieKey are not kept apart,
\* and each put replaces what the key holds: the store changes only by a put
\* and holds after it the cookie set of that put, so that once both have
\* finished it holds the set of the put that came last
C16_LastPutWins ==
  [][/\ \A p \in Procs :
          PutDone(p) =>
            kv'[args[p].cookieKey].val = JSONStringify(cookies[p].items)
     /\ kv' # kv => \E p \in Procs : PutDone(p)]_vars

\* both acquisitions, served at once, went through the fresh login (no other
\* path leads to the put of line 221) and the store took both puts, of
\* different cookie sets; it holds one of them
C16_Witness ==
  \E p, q \in Procs :
    /\ p # q
    /\ Returned(p) /\ Returned(q)
    /\ args[p].cookieKey = args[q].cookieKey
    /\ last[p] = [op |-> "kv.put", out |-> "ok"]
    /\ last[q] = [op |-> "kv.put", out |-> "ok"]
    /\ Len(PutsOf(p)) = 1 /\ Len(PutsOf(q)) = 1
    /\ PutsOf(p)[1].val # PutsOf(q)[1].val
    /\ kv[args[q].cookieKey].val = PutsOf(q)[1].val

\* the action of the form request p has just read
ActionRead(p) == last[p].op = "frame.evaluate.action"

\* the action names the callback endpoint or carries the destination
Matches(act, expected) ==
  \/ Contains(act, <<"callback">>)
  \/ Contains(act, expected)

\* C21: a POST form the scan reaches is submitted exactly when its action
\* contains 'callback' or the expected destination, or when no destination
\* is expected: with a destination, a form whose action is unreadable or
\* matches neither is passed over, and without one the first POST form found
\* is submitted whatever its action
C21_RelayFormSubmittedIff ==
  \A p \in Procs :
    LET expected == args[p].expectedRedirectUrl IN
      /\ pc[p] = "submitForm" =>
           /\ ActionRead(p)
           /\ ~Truthy(expected) \/ Matches(ActionOf(last[p].out), expected)
      /\ ActionRead(p) /\ Truthy(expected) =>
           IF Matches(ActionOf(last[p].out), expected)
             THEN pc[p] = "submitForm"
             ELSE pc[p] \notin {"submitForm", "relayNav"} /\ ops[p].submit = 0
      /\ ActionRead(p) /\ ~Truthy(expected) =>
           pc[p] = "submitForm" /\ formIdx[p] = 1 /\ ops[p].submit = 0

\* the kinds of the KV operations request p has issued, in order
StoreOpKinds(p) == [i \in 1..Len(storeOps[p]) |-> storeOps[p][i].op]

\* C22: one call reads the store exactly once, before any page operation,
\* and writes it at most once, as the last operation before it returns; no
\* other store operation lies between the read and the write
C22_OneReadThenAtMostOneWrite ==
  \A p \in Procs :
    /\ pc[p] = "get" => storeOps[p] = <<>> /\ ops[p] = NoOps /\ last[p] = NoLast
    /\ (InCall(p) /\ pc[p] # "get") =>
         /\ StoreOpKinds(p) \in {<<"get">>, <<"get", "put">>}
         /\ storeOps[p][1].key = args[p].cookieKey
    /\ (InCall(p) /\ Len(PutsOf(p)) = 1) =>
         /\ pc[p] = "returned"
         /\ last[p].op = "kv.put"
         /\ storeOps[p][2].key = args[p].cookieKey

\* a call that ran page operations of the fresh login has returned after
\* its read and its write
C22_Witness ==
  \E p \in Procs :
    /\ Returned(p)
    /\ StoreOpKinds(p) = <<"get", "put">>
    /\ ops[p].click = 1
    /\ ops[p].goto >= 1

\* where a call is once the click of line 145 has settled, up to the save
AfterClick ==
  {"frames", "queryForms", "readAction", "submitForm", "relayNav", "endFrame",
   "race", "pollExpected", "idleExpected", "pollAway", "idleAway",
   "readCookies", "put"}

\* where a call is between the login page and the click of line 145
BeforeClick ==
  {"waitWidget", "waitUser", "findUser", "typeUser", "findPass", "typePass",
   "arm", "click"}

\* C23: on the fresh-login path the username is typed exactly when its field
\* is found, the password is typed exactly when its field is found, however
\* the username step ended, and the submit click is attempted exactly once
\* whether or not a field was found or typed
C23_TypeIffFoundClickOnce ==
  \A p \in Procs :
    /\ last[p].op = "page.$.user" =>
         /\ pc[p] = "typeUser" <=> last[p].out = "found"
         /\ pc[p] # "typeUser" => pc[p] = "findPass"
         /\ ops[p].type = 0
    /\ last[p].op = "page.type.user" => pc[p] = "findPass" /\ ops[p].type = 1
    /\ last[p].op = "page.$.pass" =>
         /\ pc[p] = "typePass" <=> last[p].out = "found"
         /\ pc[p] # "typePass" => pc[p] = "arm"
    /\ last[p].op = "page.type.pass" => pc[p] = "arm" /\ ops[p].type \in {1, 2}
    /\ pc[p] \in BeforeClick => ops[p].click = 0
    /\ pc[p] \in AfterClick => ops[p].click = 1
    /\ ops[p].click <= 1

\* one of the two credentials only has been typed, and the click has been
\* attempted
C23_Witness ==
  \E p \in Procs :
    /\ last[p].op = "page.click"
    /\ ops[p].click = 1
    /\ ops[p].type = 1
    /\ pc[p] = "frames"

\* the call of request p has ended, with a result or with an error
CallOver(p) == pc[p] \in {"returned", "raised"}

\* C24: a call of ensureLoggedIn whose awaited operations all settle ends,
\* with a result or with an error: nothing in it is retried and its only
\* loops are the scans over the frames and over the forms of a frame
C24_EveryCallEnds ==
  \A p \in Procs : (pc[p] = "get") ~> CallOver(p)

\* a call that ran the fresh login and submitted a relay form has ended
\* after its save
C24_Witness ==
  \E p \in Procs :
    /\ Returned(p)
    /\ ops[p].click = 1
    /\ ops[p].submit = 1
    /\ last[p].op = "kv.put"

\* C25 as stated: the timeouts of the waits that follow one another on a
\* path of ensureLoggedIn (widget 5 s, username field 15 s, watchers 15 s,
\* relay navigation 30 s, destination poll 30 s, network idle 15 s) add up to
\* 90 seconds at most
C25_WorstCaseWithinNinety ==
  \A p \in Procs : budget[p] <= 90000

\* C25, amended: the timeouts of the waits that follow one another on a path
\* add up to 110 seconds at most, and to 80 seconds at most on a path that
\* submits no relay form
C25_WorstCaseWithinHundredTen ==
  \A p \in Procs :
    /\ budget[p] <= 110000
    /\ ops[p].submit = 0 => budget[p] <= 80000

\* a fresh login that awaited all six waits has ended
C25_Witness ==
  \E p \in Procs :
    /\ CallOver(p)
    /\ TookFreshLogin(p)
    /\ budget[p] = 110000

\* no success selector is configured
NoSelector == ~Truthy(env.LOGIN_SUCCESS_SELECTOR)

\* C26: with no success selector configured the race of the two watchers is
\* settled as soon as it is awaited, without the navigation watcher, so the
\* call goes on to the destination phase whether or not a navigation has
\* occurred after the submit
C26_RaceImmediateWithoutSelector ==
  \A p \in Procs :
    NoSelector =>
      /\ pc[p] \in {"click"} \cup AfterClick => successPromise[p] = "fulfilled"
      /\ pc[p] = "race" => RaceSettled(navPromise[p], successPromise[p])
      /\ last[p].op = "Promise.race" =>
           /\ pc[p] = DestinationPhase(args[p].expectedRedirectUrl)
           /\ last[p].out = "fulfilled"

\* with no selector the race is over and the call is in the destination
\* phase while the navigation watcher is still waiting
C26_Witness ==
  \E p \in Procs :
    /\ NoSelector
    /\ last[p].op = "Promise.race"
    /\ navPromise[p] = "pending"
    /\ pc[p] \in {"pollExpected", "pollAway"}

\* the call of request p takes a step: an awaited operation settles and its
\* continuation runs, or the frame loop goes on
Stepped(p) ==
  /\ pc[p] \in LoginPlaces
  /\ <<pc[p], last[p], frameIdx[p], formIdx[p]>>
       # <<pc'[p], last'[p], frameIdx'[p], formIdx'[p]>>

\* the step is the one the ensureLoggedIn of lines 391-562 takes from the
\* same place on the same answers: the same operation awaited, the same
\* place after it, the same store operations, timeouts and result
PuppeteerDoes(p) ==
  LET at == pc[p]
      out == last'[p].out IN
    /\ at # "endFrame" =>
         /\ last'[p].op = PuppeteerOp(at)
         /\ out \in PuppeteerOutcomes(at, args[p], env, page[p], page'[p].url)
         /\ budget'[p] = budget[p] + PuppeteerBound(PuppeteerOp(at), env)
    /\ pc'[p] = PuppeteerNext(at, out, args[p], KvLookup(args[p].cookieKey),
                              page'[p].url,
                              IF at = "readAction" THEN ActionOf(out) ELSE Null,
                              frameIdx[p],
                              nFrames[p], formIdx[p], nForms[p], submitted[p])
    /\ storeOps'[p] = PuppeteerStoreOps(at, storeOps[p], args[p], cookies[p])
    /\ result'[p] = PuppeteerResult(at, page'[p].url, result[p])
    /\ at = "put" /\ out = "ok" =>
         kv'[args[p].cookieKey].ttl = 60 * 60 * 24 * 7

\* C27: the ensureLoggedIn of the Stagehand worker and that of the puppeteer
\* worker are equivalent: from the same store, environment and page
\* behaviour every step of the one is the step of the other, so that they
\* issue the same page and store operations in the same order and return
\* the same result
C27_VariantsTakeTheSameSteps ==
  [][\A p \in Procs : Stepped(p) => PuppeteerDoes(p)]_vars

\* a call that went through the restore, the fresh login, a relay form and
\* the save has returned
C27_Witness ==
  \E p \in Procs :
    /\ Returned(p)
    /\ ops[p].setCookie = 1
    /\ ops[p].click = 1
    /\ ops[p].submit = 1
    /\ Len(PutsOf(p)) = 1

\* C28: every browser session opened by a fetch invocation is closed before
\* the invocation returns a response or raises, also with credentials
\* missing and with ensureLoggedIn raising
C28_BrowserClosedBeforeAnswer ==
  \A p \in Procs : Answered(p) => http[p].browser # "open"

\* C29: with env.DEBUG 'false' or '0' nothing is written to the console at
\* any diagnostic call site of an acquisition; with every other value of
\* env.DEBUG, unset included, each call of log writes one line
C29_DebugOffIsSilent ==
  /\ env.DEBUG \in {<<"false">>, <<"0">>} => console = <<>>
  /\ (env.DEBUG \notin {<<"false">>, <<"0">>} /\ logCall.site.via = "log")
       => Len(console) = 1

====
